---- MODULE Spec2Model ----
(***************************************************************************)
(* State-machine model of the Citinet hub node (src-tauri/src):            *)
(*   - the tunnel supervisor (tunnel_manager.rs) with the desktop          *)
(*     commands, the autostart thread and the watchdog task of lib.rs;     *)
(*   - the persistence layer (storage_manager.rs) and the HTTP/WebSocket   *)
(*     handlers of hub_api.rs;                                             *)
(*   - the signing secret and the tokens of auth.rs.                       *)
(* Each part has its own specification over the shared variables; the      *)
(* variables of the other parts stay at their initial values.              *)
(***************************************************************************)
EXTENDS Integers, Sequences, FiniteSets, TLC

VARIABLES
    \* ---- tunnel supervisor (lib.rs AppState + TunnelManager) ----
    smSome,         \* AppState.storage_manager is Some
    tmSome,         \* AppState.tunnel_manager is Some
    child,          \* TunnelManager.child: 0 = None, else the pid of the tracked Child
    config,         \* TunnelManager.config (mode "none" = None)
    dbConfig,       \* the tunnel_config row of citinet.db
    alive,          \* pids of cloudflared processes spawned by the supervisor that still run
    nextPid,        \* the pid the next spawn gets
    flag,           \* AppState.tunnel_stopped_manually
    wdPc,           \* watchdog task: "sleep" | "poll" | "restart"
    wasRunning,     \* watchdog local was_running
    asPc,           \* autostart thread: "check" | "start" | "clear" | "done"
    cmdPc,          \* desktop command running on the main thread: "idle" | "stop" | "start" | "quick" | "reloc"
    cmdPort,        \* start_quick_tunnel's local_port == HUB_API_PORT
    tmLock,         \* holder of the tunnel_manager mutex across steps: "free" | "autostart"
    userStopped,    \* history: the stop command completed and no start was requested since
    lastStart,      \* history: caller and outcome of the last start call, e.g. "watchdog_ok"
    manual,         \* history: "stopped" after a stop command, "started" once the start
                    \* command has succeeded after that, else "none"
    \* ---- persistence layer (citinet.db and the storage directory) ----
    users,          \* users table: user_id -> [username, email, password_hash, is_admin]
    nextUid,        \* the next fresh user_id (ids are never reused)
    fkEnforced,     \* whether the SQLite build enforces FOREIGN KEY clauses (no PRAGMA in the source)
    files,          \* files table in rowid order: sequence of [file_id, user_id, file_name, is_public]
    nextFid,        \* the next fresh file_id
    disk,           \* storage/<name> -> the upload whose bytes it holds, or NoBlob
    convs,          \* conversations table: conversation_id -> [kind, name, created_by]
    nextCid,        \* the next fresh conversation_id
    members,        \* conversation_members rows: <<conversation_id, user_id>>
    messages,       \* messages rows: [id, conv, sender, empty (body), ts (created_at)]
    nextMid,        \* the next fresh message_id
    attachments,    \* message_attachments rows: <<message_id, file_id>>
    \* ---- hub API ----
    bus,            \* events sent on the broadcast channel, oldest first
    conns,          \* WebSocket connections: sequence of [user, st, snap, pos]
    bucket,         \* RateLimiter.buckets: client key -> tokens left (a key not yet seen is full)
    resp,           \* the response to the last request or desktop command
    \* ---- credentials (auth.rs) ----
    jwtSecret,      \* the static JWT_SECRET: 0 = the OnceLock is empty, else the secret
    dbSecret,       \* install path -> the jwt_secret row of its citinet.db, 0 = no row
    nextSecret,     \* the next value getrandom gives
    \* ---- the mutexes of AppState (lib.rs) ----
    lockOwner,      \* mutex -> the thread or task that holds its guard, or "none"
    lockPc          \* thread or task -> [prog: the code it runs, at: its next lock operation]

tunnelVars == <<smSome, tmSome, child, config, dbConfig, alive, nextPid, flag, wdPc,
                wasRunning, asPc, cmdPc, cmdPort, tmLock, userStopped, lastStart, manual>>

hubVars == <<users, nextUid, fkEnforced, files, nextFid, disk, convs, nextCid, members,
             messages, nextMid, attachments, bus, conns, bucket, resp>>

authVars == <<jwtSecret, dbSecret, nextSecret>>

lockVars == <<lockOwner, lockPc>>

vars == <<tunnelVars, hubVars, authVars, lockVars>>

(***************************************************************************)
(* Bounds                                                                  *)
(***************************************************************************)
\* number of cloudflared processes the supervisor may spawn in one run
MaxSpawn == 3

\* number of user ids that can exist (registered or created on the desktop)
MaxUsers == 2

\* number of uploads
MaxFiles == 2

\* capacity of a rate limiter bucket (RateLimiter::new(10, 1.0) in the program)
MaxTokens == 2

\* number of conversations created
MaxConvs == 2

\* number of install paths a node can be initialized at
MaxPaths == 2

\* number of secrets generated
MaxSecrets == 2

\* number of messages sent
MaxMsgs == 2

\* number of WebSocket connections opened
MaxConns == 1

\* backlog of the broadcast channel (broadcast::channel(256) in the program)
BusCap == 1

(***************************************************************************)
(* The mutexes of AppState and the code that locks them: lib.rs, hub_api.rs *)
(***************************************************************************)
\* storage_manager, tunnel_manager and tunnel_stopped_manually
Locks == {"sm", "tm", "flag"}

\* a desktop command, a second one overlapping it (commands are not taken to be
\* serialized by the main thread), a request handler, the autostart thread and the
\* watchdog task
Procs == {"cmd1", "cmd2", "api", "autostart", "watchdog"}

\* what each thread or task can run
ProgramsOf(p) ==
    CASE p = "cmd1" ->
            {"initialize_node", "relocate_storage", "start_quick_tunnel", "setup_tunnel",
             "start_tunnel", "stop_tunnel", "get_tunnel_status", "register_hub",
             "storage_command"}
      [] p = "cmd2" -> {"relocate_storage", "setup_tunnel", "stop_tunnel"}
      [] p = "api"       -> {"handler"}
      [] p = "autostart" -> {"autostart_ok", "autostart_err"}
      [] p = "watchdog"  -> {"tick_stopped", "tick_poll", "tick_restart"}

Acq(l) == <<"acq", l>>

Rel(l) == <<"rel", l>>

\* lock operations in which relocate_storage replaces the supervisor before it looks
\* at the storage
LockOpsTunnelFirst(prog) ==
    IF prog = "relocate_storage"
    THEN <<Acq("tm"), Rel("tm"), Acq("sm"), Rel("sm"),
           Acq("tm"), Acq("sm"), Rel("sm"), Rel("tm")>>
    ELSE IF prog \in {"initialize_node", "setup_tunnel"}
    THEN <<Acq("sm"), Acq("tm"), Rel("tm"), Rel("sm")>>
    ELSE <<Acq("sm"), Rel("sm")>>

\* the lock and unlock operations of each piece of code, in program order; a guard is
\* released where it goes out of scope
LockOps(prog) ==
    CASE prog = "initialize_node" ->
            <<Acq("sm"), Acq("tm"), Rel("tm"), Rel("sm")>>
      [] prog = "relocate_storage" ->
            <<Acq("tm"), Rel("tm"), Acq("sm"), Rel("sm"),
              Acq("sm"), Acq("tm"), Rel("tm"), Rel("sm")>>
      [] prog = "start_quick_tunnel" ->
            <<Acq("flag"), Rel("flag"), Acq("sm"), Acq("tm"), Rel("tm"), Rel("sm")>>
      [] prog = "setup_tunnel" ->
            <<Acq("sm"), Acq("tm"), Rel("tm"), Rel("sm")>>
      [] prog \in {"start_tunnel", "stop_tunnel"} ->
            <<Acq("flag"), Rel("flag"), Acq("tm"), Rel("tm")>>
      [] prog = "get_tunnel_status" ->
            <<Acq("tm"), Rel("tm")>>
      [] prog = "register_hub" ->
            <<Acq("sm"), Rel("sm"), Acq("tm"), Rel("tm"), Acq("sm"), Rel("sm")>>
      [] prog \in {"storage_command", "handler"} ->
            <<Acq("sm"), Rel("sm")>>
      [] prog = "autostart_ok" ->
            <<Acq("tm"), Rel("tm"), Acq("tm"), Acq("flag"), Rel("flag"), Rel("tm")>>
      [] prog = "autostart_err" ->
            <<Acq("tm"), Rel("tm"), Acq("tm"), Rel("tm")>>
      [] prog = "tick_stopped" ->
            <<Acq("flag"), Rel("flag")>>
      [] prog = "tick_poll" ->
            <<Acq("flag"), Rel("flag"), Acq("tm"), Rel("tm")>>
      [] prog = "tick_restart" ->
            <<Acq("flag"), Rel("flag"), Acq("tm"), Rel("tm"), Acq("tm"), Rel("tm")>>

\* no guard is held and nothing runs
LocksIdle ==
    /\ lockOwner = [l \in Locks |-> "none"]
    /\ lockPc = [p \in Procs |-> [prog |-> "idle", at |-> 0]]

\* a thread or task enters a piece of code
LockBegin ==
    /\ \E p \in Procs : \E prog \in ProgramsOf(p) :
        /\ lockPc[p].prog = "idle"
        /\ lockPc' = [lockPc EXCEPT ![p] = [prog |-> prog, at |-> 1]]
    /\ UNCHANGED lockOwner
    /\ UNCHANGED <<tunnelVars, hubVars, authVars>>

\* the code is past its last lock operation
LockDone(p) ==
    lockPc[p].prog \notin {"idle", "done"} /\ lockPc[p].at > Len(LockOps(lockPc[p].prog))

\* the next lock operation of p, <<"none", "none">> when it has none
NextOp(p) ==
    IF lockPc[p].prog \in {"idle", "done"} \/ LockDone(p) THEN <<"none", "none">>
    ELSE LockOps(lockPc[p].prog)[lockPc[p].at]

\* Mutex::lock returns once the mutex is free
LockAcquire ==
    /\ \E p \in Procs :
        /\ NextOp(p)[1] = "acq"
        /\ lockOwner[NextOp(p)[2]] = "none"
        /\ lockOwner' = [lockOwner EXCEPT ![NextOp(p)[2]] = p]
        /\ lockPc' = [lockPc EXCEPT ![p].at = @ + 1]
    /\ UNCHANGED <<tunnelVars, hubVars, authVars>>

\* the guard is dropped
LockRelease ==
    /\ \E p \in Procs :
        /\ NextOp(p)[1] = "rel"
        /\ lockOwner' = [lockOwner EXCEPT ![NextOp(p)[2]] = "none"]
        /\ lockPc' = [lockPc EXCEPT ![p].at = @ + 1]
    /\ UNCHANGED <<tunnelVars, hubVars, authVars>>

\* the code returns; the autostart thread ends, the others can run again
LockReturn ==
    /\ \E p \in Procs :
        /\ LockDone(p)
        /\ lockPc' = [lockPc EXCEPT ![p] = [prog |-> IF p = "autostart" THEN "done"
                                                     ELSE "idle",
                                            at |-> 0]]
    /\ UNCHANGED lockOwner
    /\ UNCHANGED <<tunnelVars, hubVars, authVars>>

(***************************************************************************)
(* Tunnel supervisor: tunnel_manager.rs                                    *)
(***************************************************************************)
NoConfig == [mode |-> "none", portOk |-> TRUE]

\* TunnelConfig values: mode "quick" | "named" (token) | "legacy" (named, empty token);
\* portOk: local_port == HUB_API_PORT
Configs == [mode : {"quick", "named", "legacy"}, portOk : BOOLEAN]

\* what the environment does to a spawn: the spawn fails, the URL wait times out,
\* stderr reaches EOF without a URL (the process went away), or the URL is printed
Outcomes == {"spawn_fail", "timeout", "eof", "url"}

\* persisting the quick tunnel row: ok, Connection::open fails, or the INSERT fails
DbOutcomes == {"ok", "open_fail", "insert_fail"}

StartFailed(c) == [ok |-> FALSE, child |-> c, spawned |-> FALSE, live |-> FALSE]

\* TunnelManager::start_tunnel. c: self.child, cfg: self.config, out: the environment,
\* pid: the pid a spawn gets, ymlExists: config/tunnel.yml exists (legacy mode).
\* Result: ok, the new self.child, whether a process was spawned, whether it still runs.
StartTunnel(c, cfg, out, pid, ymlExists) ==
    IF c # 0 THEN StartFailed(c)                      \* "Tunnel is already running"
    ELSE IF cfg.mode = "none" THEN StartFailed(c)     \* "Tunnel not configured"
    ELSE IF cfg.mode = "quick" THEN
        CASE out = "spawn_fail" -> StartFailed(c)
          [] out = "timeout"    -> [ok |-> FALSE, child |-> 0, spawned |-> TRUE, live |-> FALSE]
          [] out = "eof"        -> [ok |-> TRUE, child |-> pid, spawned |-> TRUE, live |-> FALSE]
          [] out = "url"        -> [ok |-> TRUE, child |-> pid, spawned |-> TRUE, live |-> TRUE]
    ELSE IF cfg.mode = "named" THEN
        IF out = "spawn_fail" THEN StartFailed(c)
        ELSE [ok |-> TRUE, child |-> pid, spawned |-> TRUE, live |-> TRUE]
    ELSE \* legacy: config file based
        IF ~ymlExists \/ out = "spawn_fail" THEN StartFailed(c)
        ELSE [ok |-> TRUE, child |-> pid, spawned |-> TRUE, live |-> TRUE]

\* TunnelManager::start_quick_tunnel. Result: ok, self.child, self.config, the
\* tunnel_config row, whether a process was spawned and whether it still runs.
StartQuickTunnel(c, cfg, dbc, out, db, pid, portOk) ==
    LET same(sp, lv) == [ok |-> FALSE, child |-> c, config |-> cfg, dbConfig |-> dbc,
                         spawned |-> sp, live |-> lv]
        quick == [mode |-> "quick", portOk |-> portOk]
    IN  IF c # 0 THEN same(FALSE, FALSE)                       \* "Tunnel is already running"
        ELSE CASE out = "spawn_fail" -> same(FALSE, FALSE)
               [] out = "timeout"    -> same(TRUE, FALSE)      \* child.kill(); bail
               [] out = "eof"        -> same(TRUE, FALSE)      \* public_url empty: child.kill(); bail
               [] out = "url"        ->
                    CASE db = "ok"          -> [ok |-> TRUE, child |-> pid, config |-> quick,
                                                dbConfig |-> quick, spawned |-> TRUE, live |-> TRUE]
                      \* `?` returns with the local `child` dropped, not killed
                      [] db = "open_fail"   -> same(TRUE, TRUE)
                      [] db = "insert_fail" -> [same(TRUE, TRUE) EXCEPT !.dbConfig = NoConfig]

\* a status that reports the handle as running without polling the process
GetStatusHandleOnly(c, cfg, running) ==
    [running |-> c # 0, configured |-> cfg.mode # "none", child |-> c]

\* TunnelManager::get_status: try_wait on the tracked child
GetStatus(c, cfg, running) ==
    LET isRunning == c # 0 /\ c \in running
    IN  [running |-> isRunning, configured |-> cfg.mode # "none",
         child |-> IF isRunning THEN c ELSE 0]

\* the processes left running by TunnelManager::stop_tunnel (child.take(), kill, wait)
StopTunnelAlive(c, running) == running \ {c}

(***************************************************************************)
(* Persistence layer: storage_manager.rs                                   *)
(***************************************************************************)
Uids == 1..MaxUsers

\* file names are sequences of characters
FileNames == {<<"a">>, <<"b">>, <<".", ".">>}

\* a check that accepts every name
ValidateFilenameAny(n) == TRUE

\* validate_filename: Ok unless empty or containing "..", '/' or '\'
ValidateFilename(n) ==
    ~ \/ n = <<>>
      \/ \E i \in 1..(Len(n) - 1) : n[i] = "." /\ n[i + 1] = "."
      \/ \E i \in 1..Len(n) : n[i] \in {"/", "\\"}

DiskNames == {n \in FileNames : ValidateFilename(n)}

\* no file at that path
NoBlob == [fid |-> 0, by |-> 0]

\* the first row named n in rowid order, which an unordered query_row returns; 0 if
\* there is none
FirstRow(fs, n) ==
    LET idx == {i \in 1..Len(fs) : fs[i].file_name = n}
    IN  IF idx = {} THEN 0 ELSE CHOOSE i \in idx : \A j \in idx : i <= j

RemoveAt(fs, i) == [j \in 1..(Len(fs) - 1) |-> IF j < i THEN fs[j] ELSE fs[j + 1]]

Reverse(q) == [j \in 1..Len(q) |-> q[Len(q) + 1 - j]]

\* the rows of a query result, as a set
Rows(q) == {q[i] : i \in DOMAIN q}

\* get_user_by_id(..).map(|u| u.is_admin).unwrap_or(false)
IsAdmin(us, u) == u \in DOMAIN us /\ us[u].is_admin

\* get_first_admin: the admin created first, 0 if there is none
FirstAdmin(us) ==
    LET adm == {u \in DOMAIN us : us[u].is_admin}
    IN  IF adm = {} THEN 0 ELSE CHOOSE u \in adm : \A v \in adm : u <= v

\* upload_file: the file is written to disk, then the row is inserted.
\* io: "ok" | "write_fail" | "insert_fail"; a row for an unknown user violates the
\* foreign key when the build enforces it
UploadFile(fs, dk, us, fk, fid, u, n, pub, io) ==
    LET blob == [fid |-> fid, by |-> u]
        row  == [file_id |-> fid, user_id |-> u, file_name |-> n, is_public |-> pub]
    IN  IF ~ValidateFilename(n) \/ io = "write_fail"
        THEN [ok |-> FALSE, files |-> fs, disk |-> dk, wrote |-> FALSE]
        ELSE IF io = "insert_fail" \/ (fk /\ u \notin DOMAIN us)
        THEN [ok |-> FALSE, files |-> fs, disk |-> [dk EXCEPT ![n] = blob], wrote |-> TRUE]
        ELSE [ok |-> TRUE, files |-> Append(fs, row), disk |-> [dk EXCEPT ![n] = blob],
              wrote |-> TRUE]

\* list_all_files: every row, newest first
ListAllFiles(fs) == Reverse(fs)

ListFilesUnfiltered(fs, u) == Reverse(fs)

\* list_files: the requester's rows and the public rows, newest first; u = 0 is None
ListFiles(fs, u) ==
    Reverse(SelectSeq(fs, LAMBDA f : (u # 0 /\ f.user_id = u) \/ f.is_public))

\* the owner-or-admin check shared by delete_file and update_file_visibility
MayModifyAnyone(us, owner, u) == TRUE

MayModify(us, owner, u) == owner = u \/ IsAdmin(us, u)

\* delete_file. io: "ok" | "remove_fail" (fs::remove_file fails)
DeleteFile(fs, dk, us, att, fk, u, n, io) ==
    LET i == FirstRow(fs, n)
        same == [ok |-> FALSE, files |-> fs, disk |-> dk, attachments |-> att]
    IN  IF ~ValidateFilename(n) THEN same
        ELSE IF i = 0 THEN same                                \* "File not found"
        ELSE IF ~MayModify(us, fs[i].user_id, u) THEN same     \* "Permission denied"
        ELSE IF dk[n] # NoBlob /\ io = "remove_fail" THEN same
        ELSE [ok |-> TRUE, files |-> RemoveAt(fs, i), disk |-> [dk EXCEPT ![n] = NoBlob],
              attachments |-> IF fk THEN {a \in att : a[2] # fs[i].file_id} ELSE att]

\* update_file_visibility
UpdateFileVisibility(fs, us, u, n, pub) ==
    LET i == FirstRow(fs, n)
    IN  IF ~ValidateFilename(n) \/ i = 0 THEN [ok |-> FALSE, files |-> fs]
        ELSE IF ~MayModify(us, fs[i].user_id, u) THEN [ok |-> FALSE, files |-> fs]
        ELSE [ok |-> TRUE, files |-> [fs EXCEPT ![i].is_public = pub]]

\* can_access_attached_file: some row with that name is attached to a message of a
\* conversation the user is a member of
CanAccessAttachedFile(fs, msgs, att, mem, u, n) ==
    \E i \in 1..Len(fs), m \in msgs :
        /\ fs[i].file_name = n
        /\ <<m.id, fs[i].file_id>> \in att
        /\ <<m.conv, u>> \in mem

\* read_file. io: "ok" | "read_fail"; data is the blob stored under the name
ReadFile(fs, dk, msgs, att, mem, u, n, io) ==
    LET i == FirstRow(fs, n)
        denied == [ok |-> FALSE, data |-> NoBlob]
    IN  IF ~ValidateFilename(n) \/ i = 0 THEN denied
        ELSE IF fs[i].user_id # u /\ ~fs[i].is_public
                /\ ~CanAccessAttachedFile(fs, msgs, att, mem, u, n) THEN denied
        ELSE IF dk[n] = NoBlob \/ io = "read_fail" THEN denied
        ELSE [ok |-> TRUE, data |-> dk[n]]

\* create_user: an existing username is updated in place (password, email, role), else
\* a row with a fresh id is inserted; the UNIQUE constraint on email fails either
CreateUser(us, uid, name, email, hash, isAdmin) ==
    LET existing == {u \in DOMAIN us : us[u].username = name}
        clash(self) == \E u \in DOMAIN us \ self : us[u].email = email
        row == [username |-> name, email |-> email, password_hash |-> hash,
                is_admin |-> isAdmin]
    IN  IF existing # {}
        THEN LET e == CHOOSE u \in existing : TRUE
             IN  IF clash({e}) THEN [ok |-> FALSE, users |-> us, id |-> 0, fresh |-> FALSE]
                 ELSE [ok |-> TRUE, users |-> [us EXCEPT ![e] = row], id |-> e,
                       fresh |-> FALSE]
        ELSE IF clash({}) THEN [ok |-> FALSE, users |-> us, id |-> 0, fresh |-> FALSE]
        ELSE [ok |-> TRUE, users |-> [u \in DOMAIN us \cup {uid} |->
                                         IF u = uid THEN row ELSE us[u]],
              id |-> uid, fresh |-> TRUE]

\* the user count register uses: list_users().map(len).unwrap_or(0)
UserCount(us, io) == IF io = "list_fail" THEN 0 ELSE Cardinality(DOMAIN us)

\* FOREIGN KEY clauses are enforced by the persistence layer: the schema declares them
\* and the source sets no PRAGMA, so enforcement is the default of the SQLite library the
\* crate manifest links
ForeignKeysEnforced == TRUE

\* a deletion of the user row alone
DeleteUserRowOnly(us, fs, dk, cv, mem, msgs, att, fk, u) ==
    [users |-> [v \in DOMAIN us \ {u} |-> us[v]], files |-> fs, disk |-> dk, convs |-> cv,
     members |-> mem, messages |-> msgs, attachments |-> att]

\* delete_user: removes from disk every file list_files(Some(u)) returns, then deletes
\* the user row; the rows referencing it go with it when foreign keys are enforced
DeleteUser(us, fs, dk, cv, mem, msgs, att, fk, u) ==
    LET listed == Rows(ListFiles(fs, u))
        dk2 == [n \in DOMAIN dk |->
                   IF \E f \in listed : f.file_name = n THEN NoBlob ELSE dk[n]]
        us2 == [v \in DOMAIN us \ {u} |-> us[v]]
        gone == fk /\ u \in DOMAIN us
        cv2 == IF gone THEN [c \in {d \in DOMAIN cv : cv[d].created_by # u} |-> cv[c]] ELSE cv
        fs2 == IF gone THEN SelectSeq(fs, LAMBDA f : f.user_id # u) ELSE fs
        mem2 == IF gone THEN {x \in mem : x[2] # u /\ x[1] \in DOMAIN cv2} ELSE mem
        msgs2 == IF gone THEN {x \in msgs : x.sender # u /\ x.conv \in DOMAIN cv2} ELSE msgs
        att2 == IF gone THEN {x \in att : /\ \E y \in msgs2 : y.id = x[1]
                                          /\ \E f \in Rows(fs2) : f.file_id = x[2]}
                ELSE att
    IN  [users |-> us2, files |-> fs2, disk |-> dk2, convs |-> cv2, members |-> mem2,
         messages |-> msgs2, attachments |-> att2]

\* get_client_ip: the cf-connecting-ip or x-forwarded-for header, else "direct"
ClientKeys == {"direct", "ip1"}

\* user ids a request can name: the ids in use and one that belongs to no user
PeerIds == 1..(MaxUsers + 1)

\* whether inserting a row that references user u / conversation c passes the foreign keys
RefsOk(us, cv, fk, c, u) == ~fk \/ (u \in DOMAIN us /\ c \in DOMAIN cv)

\* is_conversation_member
IsConversationMemberAlways(mem, c, u) == TRUE

IsConversationMember(mem, c, u) == <<c, u>> \in mem

\* list_conversations: the conversations joined with the user's membership rows
ListConversations(cv, mem, u) == {c \in DOMAIN cv : <<c, u>> \in mem}

\* add_group_member for each id in turn (INSERT OR IGNORE), stopping at the first error
RECURSIVE AddMembers(_, _, _, _, _, _)
AddMembers(mem, us, cv, fk, c, ids) ==
    IF ids = <<>> THEN [ok |-> TRUE, members |-> mem]
    ELSE IF <<c, Head(ids)>> \in mem THEN AddMembers(mem, us, cv, fk, c, Tail(ids))
    ELSE IF ~RefsOk(us, cv, fk, c, Head(ids)) THEN [ok |-> FALSE, members |-> mem]
    ELSE AddMembers(mem \cup {<<c, Head(ids)>>}, us, cv, fk, c, Tail(ids))

\* remove_group_member for each id in turn
RemoveMembers(mem, c, ids) == {x \in mem : ~(x[1] = c /\ x[2] \in Rows(ids))}

\* rename_conversation
RenameConversation(cv, c, name) ==
    IF c \in DOMAIN cv THEN [cv EXCEPT ![c].name = name] ELSE cv

\* the rows of the lookup in create_dm_conversation: dm conversations joined with a
\* membership row of a and a membership row of b
DmExisting(cv, mem, a, b) ==
    {c \in DOMAIN cv : cv[c].kind = "dm" /\ <<c, a>> \in mem /\ <<c, b>> \in mem}

\* the rows query_row can return first: the lookup has no ORDER BY, so with several
\* matching rows the first one depends on the join order (0: no row)
DmPicks(cv, mem, a, b) ==
    IF DmExisting(cv, mem, a, b) = {} THEN {0} ELSE DmExisting(cv, mem, a, b)

\* create_dm_conversation: an existing DM joining both users is returned, else the
\* conversation row and the two membership rows are inserted one statement at a time
CreateDmConversation(cv, mem, us, fk, cid, a, b, pick) ==
    LET cv2 == [c \in DOMAIN cv \cup {cid} |->
                   IF c = cid THEN [kind |-> "dm", name |-> "", created_by |-> a] ELSE cv[c]]
    IN  IF pick # 0
        THEN [ok |-> TRUE, convs |-> cv, members |-> mem, fresh |-> FALSE, id |-> pick]
        ELSE IF fk /\ a \notin DOMAIN us
        THEN [ok |-> FALSE, convs |-> cv, members |-> mem, fresh |-> FALSE, id |-> 0]
        ELSE IF b = a \/ (fk /\ b \notin DOMAIN us)
        THEN [ok |-> FALSE, convs |-> cv2, members |-> mem \cup {<<cid, a>>}, fresh |-> TRUE,
              id |-> 0]
        ELSE [ok |-> TRUE, convs |-> cv2, members |-> mem \cup {<<cid, a>>, <<cid, b>>},
              fresh |-> TRUE, id |-> cid]

\* create_group_conversation: the row, the creator's membership, then the other members
CreateGroupConversation(cv, mem, us, fk, cid, creator, name, ids) ==
    LET cv2 == [c \in DOMAIN cv \cup {cid} |->
                   IF c = cid THEN [kind |-> "group", name |-> name, created_by |-> creator]
                   ELSE cv[c]]
        r == AddMembers(mem \cup {<<cid, creator>>}, us, cv2, fk, cid, ids)
    IN  IF fk /\ creator \notin DOMAIN us
        THEN [ok |-> FALSE, convs |-> cv, members |-> mem, fresh |-> FALSE, id |-> 0]
        ELSE [ok |-> r.ok, convs |-> cv2, members |-> r.members, fresh |-> TRUE,
              id |-> IF r.ok THEN cid ELSE 0]

\* Utc::now() read by create_message: a wall clock, which can give the reading of the
\* previous insert again
Stamps(msgs) ==
    IF msgs = {} THEN {1}
    ELSE LET last == CHOOSE t \in {m.ts : m \in msgs} : \A m \in msgs : m.ts <= t
         IN  {last, last + 1}

\* create_message's lookup "WHERE file_id = ?1 AND user_id = ?2"
OwnsFileOrNot(fs, u, fid) == \E f \in Rows(fs) : f.file_id = fid

OwnsFile(fs, u, fid) == \E f \in Rows(fs) : f.file_id = fid /\ f.user_id = u

\* create_message: membership check, the message row, then one attachment row for
\* each listed file id that is a file of the sender
CreateMessage(msgs, att, mem, fs, us, cv, fk, mid, c, u, empty, fids, ts) ==
    IF ~IsConversationMember(mem, c, u) \/ ~RefsOk(us, cv, fk, c, u)
    THEN [ok |-> FALSE, messages |-> msgs, attachments |-> att]
    ELSE [ok |-> TRUE,
          messages |-> msgs \cup {[id |-> mid, conv |-> c, sender |-> u, empty |-> empty,
                                   ts |-> ts]},
          attachments |-> att \cup
              {<<mid, fid>> : fid \in {x \in Rows(fids) : OwnsFile(fs, u, x)}}]

\* ORDER BY m.created_at DESC: the ids of the rows, newest first; rows with the same
\* created_at come in the backward order of idx_messages_conv, the later insert first
RECURSIVE NewestFirst(_)
NewestFirst(rows) ==
    IF rows = {} THEN <<>>
    ELSE LET top == CHOOSE m \in rows :
                        \A x \in rows : x.ts < m.ts \/ (x.ts = m.ts /\ x.id <= m.id)
         IN  <<top.id>> \o NewestFirst(rows \ {top})

\* list_messages: the conversation's messages (joined with their senders) with
\* created_at < the cursor (0 = no cursor), newest first, at most `limit` of them
ListMessages(msgs, us, c, limit, before) ==
    LET all == NewestFirst({x \in msgs : /\ x.conv = c
                                         /\ x.sender \in DOMAIN us
                                         /\ (before = 0 \/ x.ts < before)})
    IN  IF Len(all) <= limit THEN all ELSE SubSeq(all, 1, limit)

\* a database without files and conversations
NoFilesNoConversations ==
    /\ files = <<>>
    /\ nextFid = 1
    /\ disk = [n \in DiskNames |-> NoBlob]
    /\ convs = <<>>
    /\ nextCid = 1
    /\ members = {}
    /\ messages = {}
    /\ nextMid = 1
    /\ attachments = {}

\* no request served yet, no WebSocket connection
ApiIdle ==
    /\ bus = <<>>
    /\ conns = <<>>
    /\ bucket = [k \in ClientKeys |-> MaxTokens]
    /\ resp = [op |-> "none", ok |-> TRUE, status |-> 0, sub |-> 0, authed |-> FALSE,
               db |-> FALSE, data |-> <<>>]

(***************************************************************************)
(* Credentials: auth.rs                                                    *)
(***************************************************************************)
Paths == 1..MaxPaths

\* init_jwt_secret(db) on the database at path p: the persisted secret if there is one,
\* else a fresh one that is persisted; JWT_SECRET.set(secret).ok() keeps a value
\* that is already set
InitJwtSecret(js, ds, ns, p) ==
    LET secret == IF ds[p] # 0 THEN ds[p] ELSE ns
    IN  [jwt |-> IF js = 0 THEN secret ELSE js,
         db |-> [ds EXCEPT ![p] = secret],
         next |-> IF ds[p] # 0 THEN ns ELSE ns + 1]

\* no node configured: no secret in the process and none persisted
NoSecret ==
    /\ jwtSecret = 0
    /\ dbSecret = [p \in Paths |-> 0]
    /\ nextSecret = 1

\* run() opened the node at path 1 and init_jwt_secret loaded or generated its secret
SecretLoaded ==
    /\ jwtSecret = 1
    /\ dbSecret = [p \in Paths |-> IF p = 1 THEN 1 ELSE 0]
    /\ nextSecret = 2

\* TOKEN_EXPIRATION_HOURS
TokenExpirationHours == 168

\* the leeway in seconds of jsonwebtoken's Validation::default()
Leeway == 60

\* Unix times at which tokens are issued
Times == {0, 1}

\* generate_token at time t (seconds) with the secret key: the signed claims
GenerateTokenNoExpiry(u, name, isAdmin, t, key) ==
    [sub |-> u, username |-> name, is_admin |-> isAdmin, iat |-> t, exp |-> t, key |-> key]

GenerateToken(u, name, isAdmin, t, key) ==
    [sub |-> u, username |-> name, is_admin |-> isAdmin, iat |-> t,
     exp |-> t + TokenExpirationHours * 3600, key |-> key]

\* decode::<Claims> with Validation::default() at time t: the signature must be made
\* with the secret and exp must not be more than the leeway in the past
Decode(tok, t, key) ==
    IF tok.key # key \/ tok.exp < t - Leeway
    THEN [ok |-> FALSE, sub |-> 0, username |-> "", is_admin |-> FALSE, iat |-> 0, exp |-> 0]
    ELSE [ok |-> TRUE, sub |-> tok.sub, username |-> tok.username,
          is_admin |-> tok.is_admin, iat |-> tok.iat, exp |-> tok.exp]

\* bcrypt reads at most this many bytes of a password, its terminating zero byte
\* included
BcryptMaxBytes == 72

\* the salts bcrypt::hash draws
Salts == {1, 2}

\* n bytes of value c
Fill(n, c) == [i \in 1..n |-> c]

\* the key bcrypt derives the digest from: the password bytes and a zero byte, cut to
\* BcryptMaxBytes
BcryptKey(p) ==
    LET z == Append(p, 0)
    IN  IF Len(z) > BcryptMaxBytes THEN SubSeq(z, 1, BcryptMaxBytes) ELSE z

\* hash_password: bcrypt::hash(password, DEFAULT_COST) with a fresh salt; the digest
\* is taken to be collision free on the salt and the key
HashPassword(p, salt) == [salt |-> salt, digest |-> BcryptKey(p)]

\* verify_password: bcrypt::verify hashes the password with the salt of the stored
\* hash and compares; Err only for a stored string that is no bcrypt hash
VerifyPassword(p, h) == [err |-> FALSE, valid |-> HashPassword(p, h.salt) = h]

(***************************************************************************)
(* Desktop commands, autostart thread and watchdog task: lib.rs            *)
(***************************************************************************)
\* TunnelManager::new: no child, the configuration loaded from the database
\* (get_or_insert_with keeps an existing manager)
ManagerChild == IF tmSome THEN child ELSE 0
ManagerConfig == IF tmSome THEN config ELSE dbConfig

\* the effect of a start_tunnel / start_quick_tunnel result r on the process table
Spawn(r) ==
    /\ alive' = IF r.live THEN alive \cup {nextPid} ELSE alive
    /\ nextPid' = IF r.spawned THEN nextPid + 1 ELSE nextPid

\* #[tauri::command] stop_tunnel, first half: set the manual-stop flag
CmdStopBegin ==
    /\ cmdPc = "idle"
    /\ flag' = TRUE
    /\ cmdPc' = "stop"
    /\ UNCHANGED <<smSome, tmSome, child, config, dbConfig, alive, nextPid, wdPc,
                   wasRunning, asPc, cmdPort, tmLock, userStopped, lastStart, manual>>
    /\ UNCHANGED hubVars
    /\ UNCHANGED authVars
    /\ UNCHANGED lockVars

\* stop_tunnel, second half: lock the manager and kill the child
CmdStopEnd ==
    /\ cmdPc = "stop"
    /\ tmLock = "free"
    /\ cmdPc' = "idle"
    /\ IF tmSome
       THEN /\ child' = 0
            /\ alive' = StopTunnelAlive(child, alive)
            /\ userStopped' = TRUE
            /\ manual' = "stopped"
       ELSE UNCHANGED <<child, alive, userStopped, manual>>      \* "Tunnel not configured"
    /\ UNCHANGED <<smSome, tmSome, config, dbConfig, nextPid, flag, wdPc,
                   wasRunning, asPc, cmdPort, tmLock, lastStart>>
    /\ UNCHANGED hubVars
    /\ UNCHANGED authVars
    /\ UNCHANGED lockVars

\* a start command that leaves the manual-stop flag as it is
CmdStartBeginKeepsFlag ==
    /\ cmdPc = "idle"
    /\ cmdPc' = "start"
    /\ userStopped' = FALSE
    /\ UNCHANGED <<smSome, tmSome, child, config, dbConfig, alive, nextPid, flag, wdPc,
                   wasRunning, asPc, cmdPort, tmLock, lastStart, manual>>
    /\ UNCHANGED hubVars
    /\ UNCHANGED authVars
    /\ UNCHANGED lockVars

\* #[tauri::command] start_tunnel, first half: clear the manual-stop flag
CmdStartBegin ==
    /\ cmdPc = "idle"
    /\ flag' = FALSE
    /\ cmdPc' = "start"
    /\ userStopped' = FALSE
    /\ UNCHANGED <<smSome, tmSome, child, config, dbConfig, alive, nextPid, wdPc,
                   wasRunning, asPc, cmdPort, tmLock, lastStart, manual>>
    /\ UNCHANGED hubVars
    /\ UNCHANGED authVars
    /\ UNCHANGED lockVars

\* start_tunnel, second half: port validation, then TunnelManager::start_tunnel
CmdStartEnd ==
    /\ cmdPc = "start"
    /\ tmLock = "free"
    /\ nextPid <= MaxSpawn
    /\ cmdPc' = "idle"
    /\ IF tmSome /\ (config.mode = "none" \/ config.portOk)
       THEN \E out \in Outcomes, yml \in BOOLEAN :
              LET r == StartTunnel(child, config, out, nextPid, yml)
              IN  /\ child' = r.child
                  /\ Spawn(r)
                  /\ lastStart' = IF r.ok THEN "cmd_ok" ELSE "cmd_err"
                  /\ manual' = IF r.ok /\ manual = "stopped" THEN "started" ELSE manual
       ELSE /\ UNCHANGED <<child, alive, nextPid, manual>>   \* not configured / wrong port
            /\ lastStart' = "cmd_err"
    /\ UNCHANGED <<smSome, tmSome, config, dbConfig, flag, wdPc, wasRunning, asPc,
                   cmdPort, tmLock, userStopped>>
    /\ UNCHANGED hubVars
    /\ UNCHANGED authVars
    /\ UNCHANGED lockVars

\* #[tauri::command] start_quick_tunnel, first half: clear the manual-stop flag
CmdQuickBegin ==
    /\ cmdPc = "idle"
    /\ flag' = FALSE
    /\ cmdPc' = "quick"
    /\ cmdPort' \in BOOLEAN
    /\ userStopped' = FALSE
    /\ UNCHANGED <<smSome, tmSome, child, config, dbConfig, alive, nextPid, wdPc,
                   wasRunning, asPc, tmLock, lastStart, manual>>
    /\ UNCHANGED hubVars
    /\ UNCHANGED authVars
    /\ UNCHANGED lockVars

\* start_quick_tunnel, second half: get_or_insert_with the manager, start_quick_tunnel
CmdQuickEnd ==
    /\ cmdPc = "quick"
    /\ tmLock = "free"
    /\ nextPid <= MaxSpawn
    /\ cmdPc' = "idle"
    /\ IF smSome
       THEN \E out \in Outcomes, db \in DbOutcomes :
              LET r == StartQuickTunnel(ManagerChild, ManagerConfig, dbConfig, out, db,
                                        nextPid, cmdPort)
              IN  /\ tmSome' = TRUE
                  /\ child' = r.child
                  /\ config' = r.config
                  /\ dbConfig' = r.dbConfig
                  /\ Spawn(r)
                  /\ lastStart' = IF r.ok THEN "quick_ok" ELSE "quick_err"
       ELSE /\ UNCHANGED <<tmSome, child, config, dbConfig, alive, nextPid>>  \* "Node not initialized"
            /\ lastStart' = "quick_err"
    /\ UNCHANGED <<smSome, flag, wdPc, wasRunning, asPc, cmdPort, tmLock, userStopped,
                   manual>>
    /\ UNCHANGED hubVars
    /\ UNCHANGED authVars
    /\ UNCHANGED lockVars

\* #[tauri::command] get_tunnel_status (register_hub polls the same way)
CmdGetStatus ==
    /\ cmdPc = "idle"
    /\ tmLock = "free"
    /\ tmSome
    /\ child' = GetStatus(child, config, alive).child
    /\ UNCHANGED <<smSome, tmSome, config, dbConfig, alive, nextPid, flag, wdPc,
                   wasRunning, asPc, cmdPc, cmdPort, tmLock, userStopped, lastStart, manual>>
    /\ UNCHANGED hubVars
    /\ UNCHANGED authVars
    /\ UNCHANGED lockVars

\* #[tauri::command] setup_tunnel: the provider calls and the insert succeed, or it fails
CmdSetup ==
    /\ cmdPc = "idle"
    /\ tmLock = "free"
    /\ smSome
    /\ tmSome' = TRUE
    /\ child' = ManagerChild
    /\ \/ \E p \in BOOLEAN :
            /\ config' = [mode |-> "named", portOk |-> p]
            /\ dbConfig' = config'
       \/ /\ config' = ManagerConfig
          /\ UNCHANGED dbConfig
    /\ UNCHANGED <<smSome, alive, nextPid, flag, wdPc, wasRunning, asPc, cmdPc,
                   cmdPort, tmLock, userStopped, lastStart, manual>>
    /\ UNCHANGED hubVars
    /\ UNCHANGED authVars
    /\ UNCHANGED lockVars

\* #[tauri::command] initialize_node: the database at the chosen path is opened or
\* created and init_jwt_secret runs on it; a new TunnelManager replaces the old one,
\* which is dropped (Drop kills its child)
CmdInitializeNode ==
    /\ cmdPc = "idle"
    /\ tmLock = "free"
    /\ \E p \in Paths :
        LET r == InitJwtSecret(jwtSecret, dbSecret, nextSecret, p)
        IN  /\ dbSecret[p] # 0 \/ nextSecret <= MaxSecrets
            /\ jwtSecret' = r.jwt
            /\ dbSecret' = r.db
            /\ nextSecret' = r.next
    /\ smSome' = TRUE
    /\ tmSome' = TRUE
    /\ child' = 0
    /\ alive' = StopTunnelAlive(ManagerChild, alive)
    /\ dbConfig' \in {dbConfig, NoConfig}
    /\ config' = dbConfig'
    /\ UNCHANGED <<nextPid, flag, wdPc, wasRunning, asPc, cmdPc, cmdPort, tmLock,
                   userStopped, lastStart, manual>>
    /\ UNCHANGED hubVars
    /\ UNCHANGED lockVars

\* #[tauri::command] relocate_storage, step 1: stop the tunnel if running
CmdRelocateStop ==
    /\ cmdPc = "idle"
    /\ tmLock = "free"
    /\ cmdPc' = "reloc"
    /\ IF tmSome
       THEN child' = 0 /\ alive' = StopTunnelAlive(child, alive)
       ELSE UNCHANGED <<child, alive>>
    /\ UNCHANGED <<smSome, tmSome, config, dbConfig, nextPid, flag, wdPc, wasRunning,
                   asPc, cmdPort, tmLock, userStopped, lastStart, manual>>
    /\ UNCHANGED hubVars
    /\ UNCHANGED authVars
    /\ UNCHANGED lockVars

\* relocate_storage, steps 2 and 3: relocate, then replace the TunnelManager
CmdRelocateEnd ==
    /\ cmdPc = "reloc"
    /\ tmLock = "free"
    /\ cmdPc' = "idle"
    /\ \/ /\ smSome                                   \* relocate succeeded
          /\ tmSome' = TRUE
          /\ child' = 0
          /\ alive' = StopTunnelAlive(ManagerChild, alive)
          /\ config' = dbConfig
       \/ UNCHANGED <<tmSome, child, alive, config>>  \* "Node not initialized" / relocate failed
    /\ UNCHANGED <<smSome, dbConfig, nextPid, flag, wdPc, wasRunning, asPc, cmdPort,
                   tmLock, userStopped, lastStart, manual>>
    /\ UNCHANGED hubVars
    /\ UNCHANGED authVars
    /\ UNCHANGED lockVars

\* autostart thread: probe the API, then read the configuration
AsCheck ==
    /\ asPc = "check"
    /\ tmLock = "free"
    /\ \/ asPc' = "done"                              \* API not ready: skip auto-start
       \/ asPc' = IF tmSome /\ config.mode # "none" THEN "start" ELSE "done"
    /\ UNCHANGED <<smSome, tmSome, child, config, dbConfig, alive, nextPid, flag, wdPc,
                   wasRunning, cmdPc, cmdPort, tmLock, userStopped, lastStart, manual>>
    /\ UNCHANGED hubVars
    /\ UNCHANGED authVars
    /\ UNCHANGED lockVars

\* autostart thread: start_tunnel under the manager lock
AsStart ==
    /\ asPc = "start"
    /\ tmLock = "free"
    /\ nextPid <= MaxSpawn
    /\ userStopped' = FALSE
    /\ IF tmSome
       THEN \E out \in Outcomes, yml \in BOOLEAN :
              LET r == StartTunnel(child, config, out, nextPid, yml)
              IN  /\ child' = r.child
                  /\ Spawn(r)
                  /\ lastStart' = IF r.ok THEN "auto_ok" ELSE "auto_err"
                  /\ asPc' = IF r.ok THEN "clear" ELSE "done"
                  /\ tmLock' = IF r.ok THEN "autostart" ELSE "free"
       ELSE /\ UNCHANGED <<child, alive, nextPid, lastStart, tmLock>>
            /\ asPc' = "done"
    /\ UNCHANGED <<smSome, tmSome, config, dbConfig, flag, wdPc, wasRunning, cmdPc,
                   cmdPort, manual>>
    /\ UNCHANGED hubVars
    /\ UNCHANGED authVars
    /\ UNCHANGED lockVars

\* autostart thread: clear the manual-stop flag, then release the manager lock
AsClear ==
    /\ asPc = "clear"
    /\ flag' = FALSE
    /\ tmLock' = "free"
    /\ asPc' = "done"
    /\ UNCHANGED <<smSome, tmSome, child, config, dbConfig, alive, nextPid, wdPc,
                   wasRunning, cmdPc, cmdPort, userStopped, lastStart, manual>>
    /\ UNCHANGED hubVars
    /\ UNCHANGED authVars
    /\ UNCHANGED lockVars

\* the branch the watchdog takes after polling: observed running, crashed after
\* running and still configured, or nothing to do
WdDecideNeverRestarts(isRunning, isConfigured, was) ==
    IF isRunning THEN "running" ELSE "idle"

\* a watchdog that restarts whatever it observed before
WdDecideAlwaysRestarts(isRunning, isConfigured, was) ==
    IF isRunning THEN "running"
    ELSE IF isConfigured THEN "restart"
    ELSE "idle"

WdDecide(isRunning, isConfigured, was) ==
    IF isRunning THEN "running"
    ELSE IF was /\ isConfigured THEN "restart"
    ELSE "idle"

\* watchdog tick, step 1: read the manual-stop flag
WdReadFlag ==
    /\ wdPc = "sleep"
    /\ IF flag
       THEN wasRunning' = FALSE /\ wdPc' = "sleep"
       ELSE wdPc' = "poll" /\ UNCHANGED wasRunning
    /\ UNCHANGED <<smSome, tmSome, child, config, dbConfig, alive, nextPid, flag, asPc,
                   cmdPc, cmdPort, tmLock, userStopped, lastStart, manual>>
    /\ UNCHANGED hubVars
    /\ UNCHANGED authVars
    /\ UNCHANGED lockVars

\* watchdog tick, step 2: get_status under the manager lock
WdPoll ==
    /\ wdPc = "poll"
    /\ tmLock = "free"
    /\ LET s == IF tmSome THEN GetStatus(child, config, alive)
                ELSE [running |-> FALSE, configured |-> FALSE, child |-> child]
           d == WdDecide(s.running, s.configured, wasRunning)
       IN  /\ child' = s.child
           /\ wasRunning' = CASE d = "running" -> TRUE
                              [] d = "restart" -> FALSE
                              [] OTHER         -> wasRunning
           /\ wdPc' = IF d = "restart" THEN "restart" ELSE "sleep"
    /\ UNCHANGED <<smSome, tmSome, config, dbConfig, alive, nextPid, flag, asPc, cmdPc,
                   cmdPort, tmLock, userStopped, lastStart, manual>>
    /\ UNCHANGED hubVars
    /\ UNCHANGED authVars
    /\ UNCHANGED lockVars

\* watchdog tick, step 3: start_tunnel under the manager lock (taken again)
WdRestart ==
    /\ wdPc = "restart"
    /\ tmLock = "free"
    /\ nextPid <= MaxSpawn
    /\ wdPc' = "sleep"
    /\ IF tmSome
       THEN \E out \in Outcomes, yml \in BOOLEAN :
              LET r == StartTunnel(child, config, out, nextPid, yml)
              IN  /\ child' = r.child
                  /\ Spawn(r)
                  /\ wasRunning' = r.ok
                  /\ lastStart' = IF r.ok THEN "watchdog_ok" ELSE "watchdog_err"
       ELSE UNCHANGED <<child, alive, nextPid, wasRunning, lastStart>>
    /\ UNCHANGED <<smSome, tmSome, config, dbConfig, flag, asPc, cmdPc, cmdPort, tmLock,
                   userStopped, manual>>
    /\ UNCHANGED hubVars
    /\ UNCHANGED authVars
    /\ UNCHANGED lockVars

\* a cloudflared process exits on its own or is killed from outside
ProcExit ==
    /\ \E p \in alive : alive' = alive \ {p}
    /\ UNCHANGED <<smSome, tmSome, child, config, dbConfig, nextPid, flag, wdPc,
                   wasRunning, asPc, cmdPc, cmdPort, tmLock, userStopped, lastStart, manual>>
    /\ UNCHANGED hubVars
    /\ UNCHANGED authVars
    /\ UNCHANGED lockVars

\* run(): the app starts unconfigured, or auto-opens a configured install
InitTunnel ==
    /\ \/ smSome = FALSE /\ tmSome = FALSE /\ dbConfig = NoConfig /\ NoSecret
       \/ smSome = TRUE /\ tmSome = TRUE /\ dbConfig \in Configs \cup {NoConfig}
          /\ SecretLoaded
    /\ config = dbConfig
    /\ child = 0
    /\ alive = {}
    /\ nextPid = 1
    /\ flag = FALSE
    /\ wdPc = "sleep"
    /\ wasRunning = FALSE
    /\ asPc = "check"
    /\ cmdPc = "idle"
    /\ cmdPort = TRUE
    /\ tmLock = "free"
    /\ userStopped = FALSE
    /\ lastStart = "none"
    /\ manual = "none"
    /\ LocksIdle
    /\ fkEnforced = ForeignKeysEnforced
    /\ users = <<>>
    /\ nextUid = 1
    /\ NoFilesNoConversations
    /\ ApiIdle

NextTunnel ==
    \/ CmdStopBegin \/ CmdStopEnd
    \/ CmdStartBegin \/ CmdStartEnd
    \/ CmdQuickBegin \/ CmdQuickEnd
    \/ CmdGetStatus \/ CmdSetup \/ CmdInitializeNode
    \/ CmdRelocateStop \/ CmdRelocateEnd
    \/ AsCheck \/ AsStart \/ AsClear
    \/ WdReadFlag \/ WdPoll \/ WdRestart
    \/ ProcExit

SpecTunnel == InitTunnel /\ [][NextTunnel]_vars

\* C20: the first init_jwt_secret of the process sets the signing secret to the secret
\* persisted in the database it is called on, generating and persisting one if there is
\* none; once the signing secret is set no call changes it, and none generates or
\* persists another secret.
C20_InitJwtSecretOnce ==
    [][/\ (jwtSecret = 0 /\ jwtSecret' # 0) =>
            \E p \in Paths :
                /\ dbSecret'[p] = jwtSecret'
                /\ \A q \in Paths \ {p} : dbSecret'[q] = dbSecret[q]
                /\ IF dbSecret[p] # 0
                   THEN dbSecret'[p] = dbSecret[p] /\ nextSecret' = nextSecret
                   ELSE jwtSecret' = nextSecret /\ nextSecret' = nextSecret + 1
       /\ jwtSecret # 0 =>
            /\ jwtSecret' = jwtSecret
            /\ dbSecret' = dbSecret
            /\ nextSecret' = nextSecret]_vars

(***************************************************************************)
(* Tunnel supervisor: properties                                           *)
(***************************************************************************)
\* the watchdog's restart step reaches TunnelManager::start_tunnel
WdCallsStart == wdPc = "restart" /\ wdPc' = "sleep" /\ tmSome

\* C1: once the stop command has completed and no start was requested since, the
\* watchdog never calls start_tunnel, whatever the interleaving of the stop command
\* with a watchdog tick.
C1_NoRestartAfterManualStop == [][~(userStopped /\ WdCallsStart)]_vars

\* C2: when the watchdog has seen the tunnel running, a configuration is present and
\* it has read the manual-stop flag as unset, a tick that polls a supervisor whose
\* child has exited observes not-running (the handle is cleared) and goes on to call
\* start_tunnel; when that call succeeds the supervisor tracks a freshly spawned
\* child again and the watchdog remembers it as running.
C2_WatchdogRestartsCrashedTunnel ==
    [][ /\ ( /\ wdPc = "poll" /\ wdPc' # "poll"
             /\ wasRunning /\ tmSome /\ config.mode # "none"
             /\ ~GetStatus(child, config, alive).running )
           => (wdPc' = "restart" /\ child' = 0)
        /\ (WdCallsStart /\ lastStart' = "watchdog_ok")
           => ( /\ child' = nextPid /\ nextPid' = nextPid + 1
                /\ child' \notin alive /\ wasRunning' )
      ]_vars

\* C2 witness: the watchdog restarted a crashed tunnel and the new child runs
C2_Witness ==
    /\ lastStart = "watchdog_ok"
    /\ wasRunning /\ wdPc = "sleep"
    /\ child > 1 /\ child \in alive

\* a watchdog tick's poll step that finds a configured tunnel not running
WdPollsStopped ==
    /\ wdPc = "poll" /\ wdPc' # "poll"
    /\ tmSome /\ config.mode # "none"
    /\ ~GetStatus(child, config, alive).running

C26_QuickStartNeedsUrl ==
    [][(/\ nextPid' = nextPid + 1
        /\ cmdPc = "quick" \/ config.mode = "quick"
        /\ nextPid \notin alive')
       => (/\ child' = 0
           /\ lastStart' \in {"cmd_err", "quick_err", "auto_err", "watchdog_err"})]_vars

\* C30 as claimed: after a failed restart attempt of the watchdog, a tick that still
\* finds the configured tunnel not running calls start_tunnel again.
C30_WatchdogRetries ==
    [][(WdPollsStopped /\ lastStart = "watchdog_err") => wdPc' = "restart"]_vars

\* C30, amended: the watchdog makes one restart attempt per observed crash.  A failed
\* attempt leaves was_running false; was_running becomes true only by a poll that
\* observes the tunnel running or by a restart of the watchdog that succeeded; and the
\* watchdog goes on to a restart only from a poll with was_running true.
C30_OneAttemptPerCrash ==
    [][/\ (WdCallsStart /\ lastStart' = "watchdog_err") => ~wasRunning'
       /\ (~wasRunning /\ wasRunning')
            => \/ wdPc = "poll" /\ tmSome /\ GetStatus(child, config, alive).running
               \/ WdCallsStart /\ lastStart' = "watchdog_ok"
       /\ (wdPc # "restart" /\ wdPc' = "restart") => (wdPc = "poll" /\ wasRunning)
       /\ (WdPollsStopped /\ ~wasRunning) => wdPc' = "sleep"
      ]_vars

\* the restart attempt of the watchdog failed: the tunnel is configured, not running,
\* the manual-stop flag is unset, and the watchdog sleeps with was_running false
C30_Witness ==
    /\ lastStart = "watchdog_err"
    /\ wdPc = "sleep" /\ ~wasRunning /\ ~flag
    /\ tmSome /\ config.mode # "none"
    /\ child = 0 /\ alive = {}

\* C36: in every state of the supervisor, get_status reports running exactly when the
\* tracked child has not exited, keeps the handle then and clears it otherwise, and
\* reports configured exactly when a configuration is present, so that a supervisor
\* with a configuration and no handle is configured and not running; and a step that
\* only polls (it changes nothing but the handle) clears the handle of an exited child
\* and leaves the configuration as it was.
C36_GetStatusObservesExit ==
    /\ [](LET s == GetStatus(child, config, alive)
          IN  /\ (child # 0 /\ child \notin alive) => (~s.running /\ s.child = 0)
              /\ (child # 0 /\ child \in alive) => (s.running /\ s.child = child)
              /\ child = 0 => (~s.running /\ s.child = 0)
              /\ s.configured <=> config.mode # "none")
    /\ [][(/\ child' # child
            /\ UNCHANGED <<smSome, tmSome, config, dbConfig, alive, nextPid, flag, wdPc,
                           wasRunning, asPc, cmdPc, cmdPort, tmLock, userStopped,
                           lastStart, manual>>)
           => (child \notin alive /\ child' = 0 /\ config' = config)]_vars

\* the child started by the watchdog has exited and a poll has cleared its handle: the
\* supervisor is configured and not running, and nobody asked for a stop
C36_Witness ==
    /\ child = 0 /\ alive = {} /\ nextPid > 1
    /\ lastStart = "watchdog_ok" /\ wdPc = "sleep"
    /\ cmdPc = "idle" /\ ~userStopped
    /\ GetStatus(child, config, alive).configured

\* C3: at most one cloudflared process spawned by the supervisor is alive at any time
C3_AtMostOneChildAlive == Cardinality(alive) <= 1

(***************************************************************************)
(* Hub API: auth.rs and the handlers of hub_api.rs                         *)
(***************************************************************************)
\* Authorization headers: absent, another scheme, or "Bearer <token>" where the token
\* is well signed and fresh ("ok"), signed with another secret, expired, or not a JWT
Headers ==
    {[scheme |-> "none", kind |-> "garbage", sub |-> 0],
     [scheme |-> "Basic", kind |-> "ok", sub |-> 1]}
    \cup [scheme : {"Bearer"}, kind : {"ok"}, sub : Uids]
    \cup [scheme : {"Bearer"}, kind : {"badsig", "expired", "garbage"}, sub : {1}]

\* a validation that also requires the row of the token's user
ValidateTokenOfUser(t) ==
    IF jwtSecret # 0 /\ t.kind = "ok" /\ t.sub \in DOMAIN users
    THEN [ok |-> TRUE, sub |-> t.sub]
    ELSE [ok |-> FALSE, sub |-> 0]

\* auth::validate_token: decode with the node secret and the default validation
ValidateToken(t) ==
    IF jwtSecret # 0 /\ t.kind = "ok" THEN [ok |-> TRUE, sub |-> t.sub]
    ELSE [ok |-> FALSE, sub |-> 0]

\* auth::extract_bearer_token
ExtractBearerToken(h) == h.scheme = "Bearer"

\* validate_auth_header: Err(401) without the header, without the Bearer prefix or
\* when the token does not validate
ValidateAuthHeader(h) ==
    IF h.scheme = "none" THEN [ok |-> FALSE, sub |-> 0]
    ELSE IF ~ExtractBearerToken(h) THEN [ok |-> FALSE, sub |-> 0]
    ELSE ValidateToken(h)

\* request bodies / query strings as the extractors of a handler's signature see
\* them: accepted, or rejected by the extractor before the handler body runs
Bodies == {"ok", "syntax", "data"}

ExtractorStatus(b) == IF b = "syntax" THEN 400 ELSE 422

Response(op, ok, status, sub, authed, db, data) ==
    [op |-> op, ok |-> ok, status |-> status, sub |-> sub, authed |-> authed,
     db |-> db, data |-> data]

\* the extractor rejected the request: the handler body, validate_auth_header
\* included, never ran
Rejected(op, h, b) ==
    Response(op, FALSE, ExtractorStatus(b), 0, ValidateAuthHeader(h).ok, FALSE, <<>>)

\* validate_auth_header(&headers)? returned Err
Unauthorized(op) == Response(op, FALSE, 401, 0, FALSE, FALSE, <<>>)

\* get_secret() found JWT_SECRET unset: expect() panics, the task of the request ends
\* and no response is written (status 0)
Panicked(op) == Response(op, FALSE, 0, 0, FALSE, FALSE, <<>>)

\* the request did not authenticate: 401 from validate_auth_header, unless the header
\* carried a bearer token and validate_token reached get_secret() with no secret set
AuthFailed(op, h) ==
    IF ExtractBearerToken(h) /\ jwtSecret = 0 THEN Panicked(op) ELSE Unauthorized(op)

\* state.storage_manager is None: 503
Unavailable(op, sub) == Response(op, FALSE, 503, sub, TRUE, FALSE, <<>>)

\* GET /api/files
ApiListFiles ==
    /\ \E h \in Headers :
        LET a == ValidateAuthHeader(h)
        IN  resp' = IF ~a.ok THEN AuthFailed("list_files", h)
                    ELSE IF ~smSome THEN Unavailable("list_files", a.sub)
                    ELSE Response("list_files", TRUE, 200, a.sub, TRUE, TRUE,
                                  ListFiles(files, a.sub))
    /\ UNCHANGED <<users, nextUid, fkEnforced, files, nextFid, disk, convs, nextCid,
                   members, messages, nextMid, attachments, bus, conns, bucket>>
    /\ UNCHANGED tunnelVars
    /\ UNCHANGED authVars
    /\ UNCHANGED lockVars

\* POST /api/files. b = "syntax": not multipart (Multipart extractor rejects);
\* b = "data": no file field, or an empty one (400 after authentication)
ApiUploadFile ==
    /\ nextFid <= MaxFiles
    /\ \E h \in Headers, b \in Bodies :
        LET a == ValidateAuthHeader(h)
        IN  IF b = "syntax" \/ ~a.ok \/ b = "data" \/ ~smSome
            THEN /\ resp' = IF b = "syntax" THEN Rejected("upload_file", h, b)
                            ELSE IF ~a.ok THEN AuthFailed("upload_file", h)
                            ELSE IF b = "data"
                            THEN Response("upload_file", FALSE, 400, a.sub, TRUE, FALSE, <<>>)
                            ELSE Unavailable("upload_file", a.sub)
                 /\ UNCHANGED <<files, nextFid, disk>>
            ELSE \E n \in FileNames, pub \in BOOLEAN,
                    io \in {"ok", "write_fail", "insert_fail"} :
                 LET r == UploadFile(files, disk, users, fkEnforced, nextFid, a.sub, n,
                                     pub, io)
                 IN  /\ resp' = Response("upload_file", r.ok, IF r.ok THEN 200 ELSE 500,
                                         a.sub, TRUE, TRUE,
                                         IF r.ok THEN <<nextFid>> ELSE <<>>)
                     /\ files' = r.files
                     /\ disk' = r.disk
                     /\ nextFid' = IF r.wrote THEN nextFid + 1 ELSE nextFid
    /\ UNCHANGED <<users, nextUid, fkEnforced, convs, nextCid, members, messages, nextMid,
                   attachments, bus, conns, bucket>>
    /\ UNCHANGED tunnelVars
    /\ UNCHANGED authVars
    /\ UNCHANGED lockVars

\* GET /api/files/:name
ApiDownloadFile ==
    /\ \E h \in Headers :
        LET a == ValidateAuthHeader(h)
        IN  IF ~a.ok \/ ~smSome
            THEN resp' = IF ~a.ok THEN AuthFailed("download_file", h)
                         ELSE Unavailable("download_file", a.sub)
            ELSE \E n \in FileNames, io \in {"ok", "read_fail"} :
                 LET r == ReadFile(files, disk, messages, attachments, members, a.sub, n, io)
                 IN  resp' = Response("download_file", r.ok, IF r.ok THEN 200 ELSE 404,
                                      a.sub, TRUE, TRUE, <<n, r.data>>)
    /\ UNCHANGED <<users, nextUid, fkEnforced, files, nextFid, disk, convs, nextCid,
                   members, messages, nextMid, attachments, bus, conns, bucket>>
    /\ UNCHANGED tunnelVars
    /\ UNCHANGED authVars
    /\ UNCHANGED lockVars

\* DELETE /api/files/:name
ApiDeleteFile ==
    /\ \E h \in Headers :
        LET a == ValidateAuthHeader(h)
        IN  IF ~a.ok \/ ~smSome
            THEN /\ resp' = IF ~a.ok THEN AuthFailed("delete_file", h)
                            ELSE Unavailable("delete_file", a.sub)
                 /\ UNCHANGED <<files, disk, attachments>>
            ELSE \E n \in FileNames, io \in {"ok", "remove_fail"} :
                 LET r == DeleteFile(files, disk, users, attachments, fkEnforced, a.sub,
                                     n, io)
                 IN  /\ resp' = Response("delete_file", r.ok, IF r.ok THEN 204 ELSE 404,
                                         a.sub, TRUE, TRUE, <<n>>)
                     /\ files' = r.files
                     /\ disk' = r.disk
                     /\ attachments' = r.attachments
    /\ UNCHANGED <<users, nextUid, fkEnforced, nextFid, convs, nextCid, members, messages,
                   nextMid, bus, conns, bucket>>
    /\ UNCHANGED tunnelVars
    /\ UNCHANGED authVars
    /\ UNCHANGED lockVars

\* PATCH /api/files/:name with Json<UpdateFileRequest>
ApiUpdateFileVisibility ==
    /\ \E h \in Headers, b \in Bodies :
        LET a == ValidateAuthHeader(h)
        IN  IF b # "ok" \/ ~a.ok \/ ~smSome
            THEN /\ resp' = IF b # "ok" THEN Rejected("update_file_visibility", h, b)
                            ELSE IF ~a.ok THEN AuthFailed("update_file_visibility", h)
                            ELSE Unavailable("update_file_visibility", a.sub)
                 /\ UNCHANGED files
            ELSE \E n \in FileNames, pub \in BOOLEAN :
                 LET r == UpdateFileVisibility(files, users, a.sub, n, pub)
                 IN  /\ resp' = Response("update_file_visibility", r.ok,
                                         IF r.ok THEN 200 ELSE 404, a.sub, TRUE, TRUE, <<n>>)
                     /\ files' = r.files
    /\ UNCHANGED <<users, nextUid, fkEnforced, nextFid, disk, convs, nextCid, members,
                   messages, nextMid, attachments, bus, conns, bucket>>
    /\ UNCHANGED tunnelVars
    /\ UNCHANGED authVars
    /\ UNCHANGED lockVars

(***************************************************************************)
(* Desktop commands on users and files: lib.rs                             *)
(***************************************************************************)
\* the result of a desktop command
CmdResult(op, ok, sub, data) == Response(op, ok, 0, sub, TRUE, ok \/ sub # 0, data)

\* #[tauri::command] update_user_role
CmdUpdateUserRole ==
    /\ smSome
    /\ \E u \in Uids, b \in BOOLEAN :
        /\ users' = IF u \in DOMAIN users THEN [users EXCEPT ![u].is_admin = b] ELSE users
        /\ resp' = CmdResult("cmd_update_user_role", TRUE, u, <<b>>)
    /\ UNCHANGED <<nextUid, fkEnforced, files, nextFid, disk, convs, nextCid, members,
                   messages, nextMid, attachments, bus, conns, bucket>>
    /\ UNCHANGED tunnelVars
    /\ UNCHANGED authVars
    /\ UNCHANGED lockVars

\* #[tauri::command] upload_file: uploads as the first admin
CmdUploadFile ==
    /\ smSome
    /\ nextFid <= MaxFiles
    /\ \E n \in FileNames, pub \in BOOLEAN, io \in {"ok", "write_fail", "insert_fail"} :
        LET admin == FirstAdmin(users)
            r == UploadFile(files, disk, users, fkEnforced, nextFid, admin, n, pub, io)
        IN  IF admin = 0
            THEN /\ resp' = CmdResult("cmd_upload_file", FALSE, 0, <<>>)  \* "No admin user found"
                 /\ UNCHANGED <<files, nextFid, disk>>
            ELSE /\ resp' = CmdResult("cmd_upload_file", r.ok, admin, <<n>>)
                 /\ files' = r.files
                 /\ disk' = r.disk
                 /\ nextFid' = IF r.wrote THEN nextFid + 1 ELSE nextFid
    /\ UNCHANGED <<users, nextUid, fkEnforced, convs, nextCid, members, messages, nextMid,
                   attachments, bus, conns, bucket>>
    /\ UNCHANGED tunnelVars
    /\ UNCHANGED authVars
    /\ UNCHANGED lockVars

\* #[tauri::command] list_files: the desktop sees every file
CmdListFiles ==
    /\ smSome
    /\ resp' = CmdResult("cmd_list_files", TRUE, 0, ListAllFiles(files))
    /\ UNCHANGED <<users, nextUid, fkEnforced, files, nextFid, disk, convs, nextCid,
                   members, messages, nextMid, attachments, bus, conns, bucket>>
    /\ UNCHANGED tunnelVars
    /\ UNCHANGED authVars
    /\ UNCHANGED lockVars

\* #[tauri::command] delete_file: deletes as the first admin
CmdDeleteFile ==
    /\ smSome
    /\ \E n \in FileNames, io \in {"ok", "remove_fail"} :
        LET admin == FirstAdmin(users)
            r == DeleteFile(files, disk, users, attachments, fkEnforced, admin, n, io)
        IN  IF admin = 0
            THEN /\ resp' = CmdResult("cmd_delete_file", FALSE, 0, <<>>)
                 /\ UNCHANGED <<files, disk, attachments>>
            ELSE /\ resp' = CmdResult("cmd_delete_file", r.ok, admin, <<n>>)
                 /\ files' = r.files
                 /\ disk' = r.disk
                 /\ attachments' = r.attachments
    /\ UNCHANGED <<users, nextUid, fkEnforced, nextFid, convs, nextCid, members, messages,
                   nextMid, bus, conns, bucket>>
    /\ UNCHANGED tunnelVars
    /\ UNCHANGED authVars
    /\ UNCHANGED lockVars

\* #[tauri::command] read_file: reads as the first admin
CmdReadFile ==
    /\ smSome
    /\ \E n \in FileNames, io \in {"ok", "read_fail"} :
        LET admin == FirstAdmin(users)
            r == ReadFile(files, disk, messages, attachments, members, admin, n, io)
        IN  resp' = IF admin = 0 THEN CmdResult("cmd_read_file", FALSE, 0, <<>>)
                    ELSE CmdResult("cmd_read_file", r.ok, admin, <<n, r.data>>)
    /\ UNCHANGED <<users, nextUid, fkEnforced, files, nextFid, disk, convs, nextCid,
                   members, messages, nextMid, attachments, bus, conns, bucket>>
    /\ UNCHANGED tunnelVars
    /\ UNCHANGED authVars
    /\ UNCHANGED lockVars

\* #[tauri::command] update_file_visibility: as the first admin
CmdUpdateFileVisibility ==
    /\ smSome
    /\ \E n \in FileNames, pub \in BOOLEAN :
        LET admin == FirstAdmin(users)
            r == UpdateFileVisibility(files, users, admin, n, pub)
        IN  IF admin = 0
            THEN /\ resp' = CmdResult("cmd_update_file_visibility", FALSE, 0, <<>>)
                 /\ UNCHANGED files
            ELSE /\ resp' = CmdResult("cmd_update_file_visibility", r.ok, admin, <<n>>)
                 /\ files' = r.files
    /\ UNCHANGED <<users, nextUid, fkEnforced, nextFid, disk, convs, nextCid, members,
                   messages, nextMid, attachments, bus, conns, bucket>>
    /\ UNCHANGED tunnelVars
    /\ UNCHANGED authVars
    /\ UNCHANGED lockVars

(***************************************************************************)
(* Files: the node is configured and serves requests                       *)
(***************************************************************************)
\* an initialized node whose tunnel is not configured
NodeUp ==
    /\ smSome = TRUE /\ tmSome = TRUE
    /\ config = NoConfig /\ dbConfig = NoConfig
    /\ child = 0 /\ alive = {} /\ nextPid = 1
    /\ flag = FALSE /\ wdPc = "sleep" /\ wasRunning = FALSE
    /\ asPc = "done" /\ cmdPc = "idle" /\ cmdPort = TRUE /\ tmLock = "free"
    /\ userStopped = FALSE /\ lastStart = "none" /\ manual = "none"
    /\ LocksIdle
    /\ SecretLoaded

Usernames == <<"alice", "bob", "carol", "dave", "erin">>

\* the users registered before the run, the first one admin
UsersAtStart ==
    [u \in Uids |->
        [username |-> Usernames[u], email |-> Usernames[u], password_hash |-> HashPassword(<<3>>, 1),
         is_admin |-> (u = 1)]]

InitFiles ==
    /\ NodeUp
    /\ users = UsersAtStart
    /\ nextUid = MaxUsers + 1
    /\ NoFilesNoConversations
    /\ fkEnforced = ForeignKeysEnforced
    /\ ApiIdle

NextFiles ==
    \/ ApiListFiles \/ ApiUploadFile \/ ApiDownloadFile
    \/ ApiDeleteFile \/ ApiUpdateFileVisibility
    \/ CmdUpdateUserRole
    \/ CmdUploadFile \/ CmdListFiles \/ CmdDeleteFile \/ CmdReadFile
    \/ CmdUpdateFileVisibility

SpecFiles == InitFiles /\ [][NextFiles]_vars

(***************************************************************************)
(* Files: properties                                                       *)
(***************************************************************************)
\* the file rows a user may see in a listing: their own and the public ones
OwnOrPublic(u) == {f \in Rows(files) : (u # 0 /\ f.user_id = u) \/ f.is_public}

\* a file row is attached to a message of a conversation the user belongs to
AttachedFor(u, fid) ==
    \E m \in messages : <<m.id, fid>> \in attachments /\ <<m.conv, u>> \in members

\* C4: a download returns content only to a requester who owns the file the content
\* belongs to, or when that file is public, or when it is attached to a message of a
\* conversation the requester belongs to.
C4_ReadFileOnlyPermittedContent ==
    (resp.op = "download_file" /\ resp.ok) =>
        LET blob == resp.data[2]
        IN  \/ blob.by = resp.sub
            \/ \E f \in Rows(files) :
                  /\ f.file_id = blob.fid
                  /\ (f.is_public \/ AttachedFor(resp.sub, f.file_id))

\* C5: list_files with an identity u returns exactly the rows owned by u together with
\* the public rows, each once, and without an identity exactly the public rows; the
\* listing the API returns to u is that result, so it never shows a private file of
\* another user.
C5_ListFilesOwnAndPublic ==
    /\ \A u \in 0..MaxUsers :
          /\ Rows(ListFiles(files, u)) = OwnOrPublic(u)
          /\ Len(ListFiles(files, u)) = Cardinality(OwnOrPublic(u))
    /\ (resp.op = "list_files" /\ resp.ok) =>
          /\ Rows(resp.data) = OwnOrPublic(resp.sub)
          /\ \A f \in Rows(resp.data) : f.user_id = resp.sub \/ f.is_public

\* C5 witness: a listing that shows another user's public file and omits another
\* user's private file
C5_Witness ==
    /\ resp.op = "list_files" /\ resp.ok
    /\ \E f \in Rows(resp.data) : f.user_id # resp.sub
    /\ \E f \in Rows(files) : f.user_id # resp.sub /\ ~f.is_public /\ f \notin Rows(resp.data)

\* C6: delete_file and update_file_visibility succeed only for a requester who owns a
\* file of that name or is an admin at the time of the request; for any other requester
\* they fail and leave the file rows and the stored content unchanged.
C6_ModifyOnlyOwnerOrAdmin ==
    [][ (resp'.op \in {"delete_file", "update_file_visibility"} /\ resp'.db) =>
          LET u == resp'.sub
              n == resp'.data[1]
              owns == \E f \in Rows(files) : f.file_name = n /\ f.user_id = u
              admin == u \in DOMAIN users /\ users[u].is_admin
          IN  /\ resp'.ok => (owns \/ admin)
              /\ ~(owns \/ admin) => (~resp'.ok /\ files' = files /\ disk' = disk)
      ]_vars

\* C6 witness: a user who is neither the owner nor an admin was refused the deletion
\* of an existing file
C6_Witness ==
    /\ resp.op = "delete_file" /\ resp.db /\ ~resp.ok
    /\ ~IsAdmin(users, resp.sub)
    /\ \E f \in Rows(files) : f.file_name = resp.data[1]
    /\ \A f \in Rows(files) : f.file_name = resp.data[1] => f.user_id # resp.sub

\* C18: at any time at most one row of the files table carries a given file name.
C18_FileNamesUnique ==
    \A i \in DOMAIN files : \A j \in DOMAIN files :
        files[i].file_name = files[j].file_name => i = j

\* C31: an upload by user u leaves every file row of another user, its owner and its
\* visibility, and the content stored under that row's name as they were.
C31_UploadKeepsOthersFiles ==
    [][resp'.op \in {"upload_file", "cmd_upload_file"}
       => \A f \in Rows(files) :
              f.user_id # resp'.sub
                  => (f \in Rows(files') /\ disk'[f.file_name] = disk[f.file_name])]_vars

\* C38: a delete_file by the owner of the file or by an admin succeeds and removes the
\* metadata row, whether the blob is on disk, already absent, or cannot be removed.
C38_DeleteRemovesMetadata ==
    [][(/\ resp'.op \in {"delete_file", "cmd_delete_file"}
        /\ resp'.db /\ Len(resp'.data) = 1
        /\ FirstRow(files, resp'.data[1]) # 0
        /\ MayModify(users, files[FirstRow(files, resp'.data[1])].user_id, resp'.sub))
       => (/\ resp'.ok
           /\ files[FirstRow(files, resp'.data[1])] \notin Rows(files'))]_vars

\* names a request can carry that are empty or hold "..", '/' or '\'
BadNames ==
    {<<>>, <<".", ".">>, <<"a", ".", ".">>, <<"/">>, <<"a", "/", "b">>, <<"\\">>,
     <<".", ".", "\\", "a">>}

\* C39: in every state, upload_file, read_file, delete_file and update_file_visibility
\* called with a name that is empty or holds "..", '/' or '\' fail and return the rows
\* and the blob directory untouched, whoever calls and whatever the disk does; and no
\* stored row carries such a name.
C39_BadNamesRejected ==
    /\ \A n \in BadNames \cup (FileNames \ DiskNames), u \in Uids, pub \in BOOLEAN :
          /\ \A io \in {"ok", "write_fail", "insert_fail"} :
                LET r == UploadFile(files, disk, users, fkEnforced, nextFid, u, n, pub, io)
                IN  ~r.ok /\ ~r.wrote /\ r.files = files /\ r.disk = disk
          /\ \A io \in {"ok", "read_fail"} :
                ~ReadFile(files, disk, messages, attachments, members, u, n, io).ok
          /\ \A io \in {"ok", "remove_fail"} :
                LET r == DeleteFile(files, disk, users, attachments, fkEnforced, u, n, io)
                IN  ~r.ok /\ r.files = files /\ r.disk = disk
          /\ LET r == UpdateFileVisibility(files, users, u, n, pub)
              IN  ~r.ok /\ r.files = files
    /\ \A f \in Rows(files) :
          LET n == f.file_name
          IN  /\ n # <<>>
              /\ \A i \in 1..Len(n) : n[i] \notin {"/", "\\"}
              /\ \A i \in 1..(Len(n) - 1) : ~(n[i] = "." /\ n[i + 1] = ".")

\* a deletion under the name ".." was refused while files are stored
C39_Witness ==
    /\ resp.op = "delete_file" /\ resp.db /\ ~resp.ok
    /\ resp.data = <<<<".", ".">>>>
    /\ Len(files) = MaxFiles

(***************************************************************************)
(* Accounts: registration and the desktop user commands                    *)
(***************************************************************************)
\* a limiter that lets a request pass without taking a token
RateCheckNoConsume(tokens, refill) ==
    LET t == IF tokens + refill > MaxTokens THEN MaxTokens ELSE tokens + refill
    IN  [ok |-> t > 0, tokens |-> t]

\* RateLimiter::check: refill by the whole tokens earned since the last refill, capped
\* at the capacity, then take one token if there is one
RateCheck(tokens, refill) ==
    LET t == IF tokens + refill > MaxTokens THEN MaxTokens ELSE tokens + refill
    IN  IF t > 0 THEN [ok |-> TRUE, tokens |-> t - 1] ELSE [ok |-> FALSE, tokens |-> t]

RegNames == {"", "alice", "bob"}

RegEmails == {"a@x", "b@x"}

\* passwords of a request, as byte strings
RegPasswords == {<<1>>, <<2>>}

\* outcomes of the two lookups register swallows the errors of: "lookup_fail", the
\* get_user_by_username of the handler returns Err (`if let Ok(Some(_))` then sees no
\* user); "list_fail", list_users returns Err (unwrap_or(0))
RegisterIo == {"ok", "list_fail", "lookup_fail"}

\* POST /api/auth/register with Json<RegisterRequest>; an empty username stands for
\* any empty field of the request
ApiRegister ==
    /\ nextUid <= MaxUsers
    /\ \E b \in Bodies, k \in ClientKeys, refill \in 0..1 :
        LET rc == RateCheck(bucket[k], refill)
        IN  IF b # "ok"
            THEN /\ resp' = Response("register", FALSE, ExtractorStatus(b), 0, FALSE, FALSE, <<>>)
                 /\ UNCHANGED <<users, nextUid, bucket>>
            ELSE /\ bucket' = [bucket EXCEPT ![k] = rc.tokens]
                 /\ IF ~rc.ok \/ ~smSome
                    THEN /\ resp' = Response("register", FALSE, IF ~rc.ok THEN 429 ELSE 503,
                                             0, FALSE, FALSE, <<>>)
                         /\ UNCHANGED <<users, nextUid>>
                    ELSE \E name \in RegNames, email \in RegEmails, pw \in RegPasswords,
                            salt \in Salts, io \in RegisterIo, t \in Times :
                         LET isAdmin == UserCount(users, io) = 0
                             r == CreateUser(users, nextUid, name, email,
                                             HashPassword(pw, salt), isAdmin)
                             tok == GenerateToken(r.id, name, isAdmin, t, jwtSecret)
                         IN  IF name = ""
                             THEN /\ resp' = Response("register", FALSE, 400, 0, FALSE, TRUE,
                                                      <<FALSE, name, email>>)
                                  /\ UNCHANGED <<users, nextUid>>
                             ELSE IF /\ io # "lookup_fail"
                                     /\ \E u \in DOMAIN users : users[u].username = name
                             THEN /\ resp' = Response("register", FALSE, 409, 0, FALSE, TRUE,
                                                      <<FALSE, name, email>>)
                                  /\ UNCHANGED <<users, nextUid>>
                             ELSE /\ resp' = Response("register", r.ok,
                                                      IF r.ok THEN 200 ELSE 500, r.id, FALSE,
                                                      TRUE,
                                                      IF r.ok
                                                      THEN <<isAdmin, name, tok, email>>
                                                      ELSE <<isAdmin, name, email>>)
                                  /\ users' = r.users
                                  /\ nextUid' = IF r.fresh THEN nextUid + 1 ELSE nextUid
    /\ UNCHANGED <<fkEnforced, files, nextFid, disk, convs, nextCid, members, messages,
                   nextMid, attachments, bus, conns>>
    /\ UNCHANGED tunnelVars
    /\ UNCHANGED authVars
    /\ UNCHANGED lockVars

\* outcomes of the two lookups of login: "lookup_fail", get_user_by_username returns
\* Err; "hash_fail", get_password_hash returns Err
LoginIo == {"ok", "lookup_fail", "hash_fail"}

\* the user id under a username, 0 when there is none
UserIdOf(us, name) ==
    IF \E u \in DOMAIN us : us[u].username = name
    THEN CHOOSE u \in DOMAIN us : us[u].username = name
    ELSE 0

\* a login that tells an unknown username from a wrong password
LoginResultNotFound(us, name, pw, io, t, key) ==
    LET u == UserIdOf(us, name)
    IN  IF io = "lookup_fail" THEN [status |-> 500, body |-> <<>>]
        ELSE IF u = 0 THEN [status |-> 404, body |-> <<>>]
        ELSE IF io = "hash_fail" THEN [status |-> 500, body |-> <<>>]
        ELSE IF ~VerifyPassword(pw, us[u].password_hash).valid
        THEN [status |-> 401, body |-> <<>>]
        ELSE [status |-> 200,
              body |-> <<us[u].is_admin, name,
                         GenerateToken(u, name, us[u].is_admin, t, key)>>]

\* the body of login after the rate limit: the status and the JSON body of the answer
\* (an Err(StatusCode) has an empty body)
LoginResult(us, name, pw, io, t, key) ==
    LET u == UserIdOf(us, name)
    IN  IF io = "lookup_fail" THEN [status |-> 500, body |-> <<>>]
        ELSE IF u = 0 THEN [status |-> 401, body |-> <<>>]
        ELSE IF io = "hash_fail" THEN [status |-> 500, body |-> <<>>]
        ELSE IF VerifyPassword(pw, us[u].password_hash).err
        THEN [status |-> 500, body |-> <<>>]
        ELSE IF ~VerifyPassword(pw, us[u].password_hash).valid
        THEN [status |-> 401, body |-> <<>>]
        ELSE [status |-> 200,
              body |-> <<us[u].is_admin, name,
                         GenerateToken(u, name, us[u].is_admin, t, key)>>]

\* passwords of a login request
LoginPasswords == RegPasswords \cup {<<3>>}

\* POST /api/auth/login with Json<LoginRequest>; resp.sub is the user row the username
\* led to
ApiLogin ==
    /\ \E b \in Bodies, k \in ClientKeys, refill \in 0..1 :
        LET rc == RateCheck(bucket[k], refill)
        IN  IF b # "ok"
            THEN /\ resp' = Response("login", FALSE, ExtractorStatus(b), 0, FALSE, FALSE, <<>>)
                 /\ UNCHANGED bucket
            ELSE /\ bucket' = [bucket EXCEPT ![k] = rc.tokens]
                 /\ IF ~rc.ok \/ ~smSome
                    THEN resp' = Response("login", FALSE, IF ~rc.ok THEN 429 ELSE 503,
                                          0, FALSE, FALSE, <<>>)
                    ELSE \E name \in RegNames, pw \in LoginPasswords, io \in LoginIo,
                            t \in Times :
                         LET r == LoginResult(users, name, pw, io, t, jwtSecret)
                         IN  resp' = Response("login", r.status = 200, r.status,
                                              UserIdOf(users, name), FALSE, TRUE, r.body)
    /\ UNCHANGED <<users, nextUid, fkEnforced, files, nextFid, disk, convs, nextCid,
                   members, messages, nextMid, attachments, bus, conns>>
    /\ UNCHANGED tunnelVars
    /\ UNCHANGED authVars
    /\ UNCHANGED lockVars

\* GET /api/members
ApiListMembers ==
    /\ \E h \in Headers :
        LET a == ValidateAuthHeader(h)
        IN  resp' = IF ~a.ok THEN AuthFailed("list_members", h)
                    ELSE IF ~smSome THEN Unavailable("list_members", a.sub)
                    ELSE Response("list_members", TRUE, 200, a.sub, TRUE, TRUE,
                                  <<DOMAIN users>>)
    /\ UNCHANGED <<users, nextUid, fkEnforced, files, nextFid, disk, convs, nextCid,
                   members, messages, nextMid, attachments, bus, conns, bucket>>
    /\ UNCHANGED tunnelVars
    /\ UNCHANGED authVars
    /\ UNCHANGED lockVars

\* #[tauri::command] create_admin_user
CmdCreateAdminUser ==
    /\ smSome
    /\ nextUid <= MaxUsers
    /\ \E name \in RegNames \ {""}, email \in RegEmails, pw \in RegPasswords,
          salt \in Salts :
        LET r == CreateUser(users, nextUid, name, email, HashPassword(pw, salt), TRUE)
        IN  /\ resp' = CmdResult("cmd_create_admin_user", r.ok, r.id, <<>>)
            /\ users' = r.users
            /\ nextUid' = IF r.fresh THEN nextUid + 1 ELSE nextUid
    /\ UNCHANGED <<fkEnforced, files, nextFid, disk, convs, nextCid, members, messages,
                   nextMid, attachments, bus, conns, bucket>>
    /\ UNCHANGED tunnelVars
    /\ UNCHANGED authVars
    /\ UNCHANGED lockVars

\* #[tauri::command] delete_user
CmdDeleteUser ==
    /\ smSome
    /\ \E u \in Uids :
        LET r == DeleteUser(users, files, disk, convs, members, messages, attachments,
                            fkEnforced, u)
        IN  /\ resp' = CmdResult("cmd_delete_user", TRUE, u, <<>>)
            /\ users' = r.users
            /\ files' = r.files
            /\ disk' = r.disk
            /\ convs' = r.convs
            /\ members' = r.members
            /\ messages' = r.messages
            /\ attachments' = r.attachments
    /\ UNCHANGED <<nextUid, fkEnforced, nextFid, nextCid, nextMid, bus, conns, bucket>>
    /\ UNCHANGED tunnelVars
    /\ UNCHANGED authVars
    /\ UNCHANGED lockVars

InitAccounts ==
    /\ NodeUp
    /\ users = <<>>
    /\ nextUid = 1
    /\ NoFilesNoConversations
    /\ fkEnforced \in BOOLEAN
    /\ ApiIdle

\* the requests of one client address
DirectOnly == bucket'["ip1"] = bucket["ip1"]

\* the hashes made with the first salt
SaltOne == \A u \in DOMAIN users' : users'[u].password_hash.salt = 1

\* accounts as one client address and the desktop change them
NextAccounts ==
    \/ (ApiRegister /\ DirectOnly /\ SaltOne) \/ ApiListMembers
    \/ (CmdCreateAdminUser /\ SaltOne) \/ CmdDeleteUser \/ CmdUpdateUserRole

SpecAccounts == InitAccounts /\ [][NextAccounts]_vars

InitLogin ==
    /\ NodeUp
    /\ users = <<>>
    /\ nextUid = 1
    /\ NoFilesNoConversations
    /\ fkEnforced = ForeignKeysEnforced
    /\ ApiIdle

\* registrations and logins from two client addresses
NextLogin == (ApiRegister /\ SaltOne) \/ ApiLogin

SpecLogin == InitLogin /\ [][NextLogin]_vars

C14_DuplicateUsername409 ==
    [][(/\ resp'.op = "register" /\ resp'.db
        /\ \E u \in DOMAIN users : users[u].username = resp'.data[2])
       => (resp'.status = 409 /\ users' = users)]_vars

\* C35: a registration under a username no user has, with an email another user has,
\* is answered 409 and creates no user.
C35_DuplicateEmail409 ==
    [][(/\ resp'.op = "register" /\ resp'.db
        /\ resp'.data[2] # ""
        /\ ~\E u \in DOMAIN users : users[u].username = resp'.data[2]
        /\ \E u \in DOMAIN users : users[u].email = resp'.data[Len(resp'.data)])
       => (resp'.status = 409 /\ users' = users)]_vars

\* passwords handed to hash_password and verify_password: short ones and ones around
\* the length bcrypt reads
Passwords ==
    {<<>>, <<1>>, <<2>>, <<1, 2>>,
     Fill(BcryptMaxBytes - 1, 1), Fill(BcryptMaxBytes, 1), Fill(BcryptMaxBytes + 1, 1),
     Append(Fill(BcryptMaxBytes - 1, 1), 2), Append(Fill(BcryptMaxBytes, 1), 2)}

\* hash_password(p) followed by verify_password(w, hash): the result record carries
\* p, w, the verdict and the hash
PasswordCheck ==
    /\ \E p \in Passwords, w \in Passwords, salt \in Salts :
        LET h == HashPassword(p, salt)
            v == VerifyPassword(w, h)
        IN  resp' = Response("verify_password", ~v.err /\ v.valid, 0, 0, FALSE, FALSE,
                             <<p, w, v, h>>)
    /\ UNCHANGED <<users, nextUid, fkEnforced, files, nextFid, disk, convs, nextCid,
                   members, messages, nextMid, attachments, bus, conns, bucket>>
    /\ UNCHANGED tunnelVars
    /\ UNCHANGED authVars
    /\ UNCHANGED lockVars

NextPassword == PasswordCheck

SpecPassword == InitLogin /\ [][NextPassword]_vars

\* C23: verify_password(w, hash_password(p)) is the value true when w = p and the value
\* false, not an error, when w is any other password.
C23_VerifyIffSamePassword ==
    resp.op = "verify_password" =>
        resp.data[3] = [err |-> FALSE, valid |-> (resp.data[1] = resp.data[2])]

\* C21: when the lookups succeed, a login with a registered username and a wrong
\* password and a login with an unregistered username and the same password are
\* answered alike: status 401 and the same (empty) body.
C21_LoginFailureUniform ==
    \A pw \in LoginPasswords : \A t \in Times : \A n1 \in RegNames : \A n2 \in RegNames :
        (/\ UserIdOf(users, n1) # 0
         /\ ~VerifyPassword(pw, users[UserIdOf(users, n1)].password_hash).valid
         /\ UserIdOf(users, n2) = 0)
        => /\ LoginResult(users, n1, pw, "ok", t, jwtSecret).status = 401
           /\ LoginResult(users, n1, pw, "ok", t, jwtSecret)
                = LoginResult(users, n2, pw, "ok", t, jwtSecret)

\* a login under a registered username was answered 401 while another name of the
\* requests is not registered
C21_Witness ==
    /\ resp.op = "login" /\ resp.status = 401 /\ resp.sub # 0
    /\ \E n \in RegNames \ {""} : UserIdOf(users, n) = 0

\* C22: every bucket holds between 0 and the capacity.  A register or login request
\* whose handler body runs names one client key; with t the tokens of that key's bucket
\* after the refill earned since the last refill, capped at the capacity, the request
\* passes the limiter exactly when t > 0 and leaves t - 1 tokens, and is otherwise
\* answered 429 with the bucket as it was; no other bucket changes.
C22_TokenBucket ==
    [][/\ \A k \in ClientKeys : bucket'[k] \in 0..MaxTokens
       /\ (/\ resp'.op \in {"register", "login"}
           /\ ~(resp'.status \in {400, 422} /\ ~resp'.db))
          => \E k \in ClientKeys, refill \in 0..1 :
                LET sum == bucket[k] + refill
                    t == IF sum > MaxTokens THEN MaxTokens ELSE sum
                IN  /\ \A j \in ClientKeys \ {k} : bucket'[j] = bucket[j]
                    /\ IF t > 0
                       THEN resp'.status # 429 /\ bucket'[k] = t - 1
                       ELSE resp'.status = 429 /\ bucket'[k] = bucket[k]]_vars

\* a login was refused with 429 on the exhausted bucket of one key while the bucket of
\* the other key is full
C22_Witness ==
    /\ resp.op = "login" /\ resp.status = 429
    /\ bucket["direct"] = 0 /\ bucket["ip1"] = MaxTokens

\* C7: a registration returns is_admin = true only for the very first user ever
\* created on the node (user ids are given out in order of creation and never reused).
C7_OnlyFirstEverUserAdmin ==
    (resp.op = "register" /\ resp.ok /\ resp.data[1]) => resp.sub = 1

(***************************************************************************)
(* Conversations, messages and the WebSocket stream: hub_api.rs            *)
(***************************************************************************)
\* PATCH bodies: an optional name, members to add, members to remove; a request that
\* removes members here does nothing else
UpdateRequests ==
    [name : {"none", "n1"}, add : {<<>>} \cup {<<u>> : u \in PeerIds}, remove : {<<>>}]
    \cup [name : {"none"}, add : {<<>>}, remove : {<<u>> : u \in Uids}]

\* POST /api/conversations with Json<CreateConversationRequest>.
\* peer = 0: peer_user_id absent; kind "other": neither "dm" nor "group"
ApiCreateConversation ==
    /\ \E h \in Headers, b \in Bodies :
        LET a == ValidateAuthHeader(h)
            op == "create_conversation"
        IN  IF b # "ok" \/ ~a.ok \/ ~smSome
            THEN /\ resp' = IF b # "ok" THEN Rejected(op, h, b)
                            ELSE IF ~a.ok THEN AuthFailed(op, h)
                            ELSE Unavailable(op, a.sub)
                 /\ UNCHANGED <<convs, nextCid, members>>
            ELSE \/ \E peer \in {0} \cup PeerIds :
                      \E pick \in DmPicks(convs, members, a.sub, peer) :
                      LET r == CreateDmConversation(convs, members, users, fkEnforced,
                                                    nextCid, a.sub, peer, pick)
                      IN  IF peer = 0
                          THEN /\ resp' = Response(op, FALSE, 400, a.sub, TRUE, TRUE, <<0>>)
                               /\ UNCHANGED <<convs, nextCid, members>>
                          ELSE /\ pick # 0 \/ nextCid <= MaxConvs
                               /\ resp' = Response(op, r.ok, IF r.ok THEN 200 ELSE 500,
                                                   a.sub, TRUE, TRUE, <<r.id>>)
                               /\ convs' = r.convs
                               /\ members' = r.members
                               /\ nextCid' = IF r.fresh THEN nextCid + 1 ELSE nextCid
                 \/ \E ids \in {<<>>} \cup {<<u>> : u \in PeerIds} :
                      LET r == CreateGroupConversation(convs, members, users, fkEnforced,
                                                       nextCid, a.sub, "n0", ids)
                      IN  /\ nextCid <= MaxConvs
                          /\ resp' = Response(op, r.ok, IF r.ok THEN 200 ELSE 500, a.sub,
                                              TRUE, TRUE, <<r.id>>)
                          /\ convs' = r.convs
                          /\ members' = r.members
                          /\ nextCid' = IF r.fresh THEN nextCid + 1 ELSE nextCid
                 \/ /\ resp' = Response(op, FALSE, 400, a.sub, TRUE, TRUE, <<0>>)
                    /\ UNCHANGED <<convs, nextCid, members>>    \* another kind, or a group
                                                               \* without name or member_ids
    /\ UNCHANGED <<users, nextUid, fkEnforced, files, nextFid, disk, messages, nextMid,
                   attachments, bus, conns, bucket>>
    /\ UNCHANGED tunnelVars
    /\ UNCHANGED authVars
    /\ UNCHANGED lockVars

\* GET /api/conversations
ApiListConversations ==
    /\ \E h \in Headers :
        LET a == ValidateAuthHeader(h)
            op == "list_conversations"
        IN  resp' = IF ~a.ok THEN AuthFailed(op, h)
                    ELSE IF ~smSome THEN Unavailable(op, a.sub)
                    ELSE Response(op, TRUE, 200, a.sub, TRUE, TRUE,
                                  <<ListConversations(convs, members, a.sub)>>)
    /\ UNCHANGED <<users, nextUid, fkEnforced, files, nextFid, disk, convs, nextCid,
                   members, messages, nextMid, attachments, bus, conns, bucket>>
    /\ UNCHANGED tunnelVars
    /\ UNCHANGED authVars
    /\ UNCHANGED lockVars

\* PATCH /api/conversations/:id with Json<UpdateConversationRequest>
ApiUpdateConversation ==
    /\ \E h \in Headers, b \in Bodies :
        LET a == ValidateAuthHeader(h)
            op == "update_conversation"
        IN  IF b # "ok" \/ ~a.ok \/ ~smSome
            THEN /\ resp' = IF b # "ok" THEN Rejected(op, h, b)
                            ELSE IF ~a.ok THEN AuthFailed(op, h)
                            ELSE Unavailable(op, a.sub)
                 /\ UNCHANGED <<convs, members>>
            ELSE \E c \in 1..MaxConvs, req \in UpdateRequests :
                 LET cv2 == IF req.name = "none" THEN convs
                            ELSE RenameConversation(convs, c, req.name)
                     r == AddMembers(members, users, cv2, fkEnforced, c, req.add)
                 IN  IF ~IsConversationMember(members, c, a.sub)
                     THEN /\ resp' = Response(op, FALSE, 403, a.sub, TRUE, TRUE, <<c, <<>>>>)
                          /\ UNCHANGED <<convs, members>>
                     ELSE /\ convs' = cv2
                          /\ members' = IF r.ok THEN RemoveMembers(r.members, c, req.remove)
                                        ELSE r.members
                          /\ resp' = Response(op, r.ok, IF r.ok THEN 200 ELSE 500, a.sub,
                                              TRUE, TRUE, <<c, <<>>>>)
    /\ UNCHANGED <<users, nextUid, fkEnforced, files, nextFid, disk, nextCid, messages,
                   nextMid, attachments, bus, conns, bucket>>
    /\ UNCHANGED tunnelVars
    /\ UNCHANGED authVars
    /\ UNCHANGED lockVars

\* a handler that publishes whatever create_message returned
PublishAlways(b, ok, c, mid) == Append(b, [conv |-> c, mid |-> mid])

\* send_message after create_message: Err leaves with 500 through `?`; Ok goes on to
\* `let _ = state.msg_tx.send(..)`, whose result (no receiver) is dropped
Publish(b, ok, c, mid) == IF ok THEN Append(b, [conv |-> c, mid |-> mid]) ELSE b

\* POST /api/conversations/:id/messages with Json<SendMessageRequest>; a created
\* message is published on the broadcast channel
ApiSendMessage ==
    /\ nextMid <= MaxMsgs
    /\ \E h \in Headers, b \in Bodies :
        LET a == ValidateAuthHeader(h)
            op == "send_message"
        IN  IF b # "ok" \/ ~a.ok
            THEN /\ resp' = IF b # "ok" THEN Rejected(op, h, b) ELSE AuthFailed(op, h)
                 /\ UNCHANGED <<messages, nextMid, attachments, bus>>
            ELSE \E c \in 1..MaxConvs, fids \in {<<>>} \cup {<<f>> : f \in 1..MaxFiles},
                    empty \in BOOLEAN, ts \in Stamps(messages) :
                 LET r == CreateMessage(messages, attachments, members, files, users, convs,
                                        fkEnforced, nextMid, c, a.sub, empty, fids, ts)
                 IN  IF (empty /\ fids = <<>>) \/ ~smSome
                     THEN /\ resp' = IF empty /\ fids = <<>>
                                     THEN Response(op, FALSE, 400, a.sub, TRUE, FALSE, <<c>>)
                                     ELSE Unavailable(op, a.sub)
                          /\ UNCHANGED <<messages, nextMid, attachments, bus>>
                     ELSE /\ resp' = Response(op, r.ok, IF r.ok THEN 200 ELSE 500, a.sub,
                                              TRUE, TRUE, <<c, nextMid, fids>>)
                          /\ messages' = r.messages
                          /\ attachments' = r.attachments
                          /\ nextMid' = IF r.ok THEN nextMid + 1 ELSE nextMid
                          /\ bus' = Publish(bus, r.ok, c, nextMid)
    /\ UNCHANGED <<users, nextUid, fkEnforced, files, nextFid, disk, convs, nextCid,
                   members, conns, bucket>>
    /\ UNCHANGED tunnelVars
    /\ UNCHANGED authVars
    /\ UNCHANGED lockVars

\* query.limit.unwrap_or(50).min(100); limit = -1: no limit parameter
DefaultLimit == 50

LimitCap == 100

EffectiveLimit(limit) ==
    LET l == IF limit = -1 THEN DefaultLimit ELSE limit
    IN  IF l < LimitCap THEN l ELSE LimitCap

\* GET /api/conversations/:id/messages with Query<MessagesQuery>
ApiGetMessages ==
    /\ \E h \in Headers, b \in Bodies :
        LET a == ValidateAuthHeader(h)
            op == "get_messages"
        IN  IF b # "ok" \/ ~a.ok \/ ~smSome
            THEN resp' = IF b # "ok" THEN Rejected(op, h, b)
                         ELSE IF ~a.ok THEN AuthFailed(op, h)
                         ELSE Unavailable(op, a.sub)
            ELSE \E c \in 1..MaxConvs, limit \in {-1, 1}, before \in {0, MaxMsgs} :
                 resp' = IF ~IsConversationMember(members, c, a.sub)
                         THEN Response(op, FALSE, 403, a.sub, TRUE, TRUE, <<c, <<>>>>)
                         ELSE Response(op, TRUE, 200, a.sub, TRUE, TRUE,
                                       <<c, ListMessages(messages, users, c,
                                                         EffectiveLimit(limit), before)>>)
    /\ UNCHANGED <<users, nextUid, fkEnforced, files, nextFid, disk, convs, nextCid,
                   members, messages, nextMid, attachments, bus, conns, bucket>>
    /\ UNCHANGED tunnelVars
    /\ UNCHANGED authVars
    /\ UNCHANGED lockVars

\* what the extractors of ws_handler see: a WebSocket upgrade carrying ?token=..., a
\* request that is not an upgrade, or an upgrade without the token parameter
WsRequests == {"ok", "no_upgrade", "no_token"}

\* tokens a client can put in the query string
QueryTokens == {h \in Headers : h.scheme = "Bearer"}

\* GET /ws?token=JWT: ws_handler, then the start of handle_ws (subscribe)
WsHandler ==
    /\ Len(conns) < MaxConns
    /\ \E q \in WsRequests, t \in QueryTokens :
        LET a == ValidateToken(t)
        IN  IF q # "ok"
            THEN /\ resp' = Response("ws", FALSE, 400, 0, q = "no_upgrade" /\ a.ok, FALSE, <<>>)
                 /\ UNCHANGED conns
            ELSE IF ~a.ok
            THEN /\ resp' = AuthFailed("ws", t)
                 /\ UNCHANGED conns
            ELSE /\ resp' = Response("ws", TRUE, 101, a.sub, TRUE, FALSE, <<Len(conns) + 1>>)
                 /\ conns' = Append(conns, [user |-> a.sub, st |-> "subscribed", snap |-> {},
                                            pos |-> Len(bus) + 1])
    /\ UNCHANGED <<users, nextUid, fkEnforced, files, nextFid, disk, convs, nextCid,
                   members, messages, nextMid, attachments, bus, bucket>>
    /\ UNCHANGED tunnelVars
    /\ UNCHANGED authVars
    /\ UNCHANGED lockVars

\* handle_ws: load the user's conversation ids, once
WsLoad ==
    /\ \E i \in DOMAIN conns :
        /\ conns[i].st = "subscribed"
        /\ conns' = [conns EXCEPT ![i].st = "open",
                                  ![i].snap = IF smSome
                                              THEN ListConversations(convs, members,
                                                                     conns[i].user)
                                              ELSE {}]
        /\ resp' = Response("ws_load", TRUE, 0, conns[i].user, TRUE, smSome, <<i>>)
    /\ UNCHANGED <<users, nextUid, fkEnforced, files, nextFid, disk, convs, nextCid,
                   members, messages, nextMid, attachments, bus, bucket>>
    /\ UNCHANGED tunnelVars
    /\ UNCHANGED authVars
    /\ UNCHANGED lockVars

\* the filter of handle_ws: conversation_ids.contains(&broadcast_msg.conversation_id)
WsForwardsAll(snap, ev) == TRUE

WsForwards(snap, ev) == ev.conv \in snap

\* a receiver that resumes at the newest event the channel has dropped
LaggedRewind(len) == len - BusCap

\* RecvError::Lagged => continue: the receiver has moved to the oldest event the
\* channel still retains
LaggedResume(len) == len - BusCap + 1

\* handle_ws loop, rx.recv(): Lagged when more than the backlog is unread (the receiver
\* skips to the oldest retained event), else the next event, which is sent on the
\* socket when it passes the filter; a failed send ends the connection
WsRecv ==
    /\ \E i \in DOMAIN conns :
        LET cn == conns[i]
            ev == bus[cn.pos]
        IN  /\ cn.st = "open"
            /\ cn.pos <= Len(bus)
            /\ IF Len(bus) - cn.pos + 1 > BusCap
               THEN /\ conns' = [conns EXCEPT ![i].pos = LaggedResume(Len(bus))]
                    /\ resp' = Response("ws_recv", TRUE, 0, cn.user, TRUE, FALSE,
                                        <<i, cn.pos, "lagged">>)
               ELSE IF WsForwards(cn.snap, ev)
               THEN \/ /\ conns' = [conns EXCEPT ![i].pos = cn.pos + 1]
                       /\ resp' = Response("ws_recv", TRUE, 0, cn.user, TRUE, FALSE,
                                           <<i, cn.pos, "sent">>)
                    \/ /\ conns' = [conns EXCEPT ![i].pos = cn.pos + 1, ![i].st = "closed"]
                       /\ resp' = Response("ws_recv", FALSE, 0, cn.user, TRUE, FALSE,
                                           <<i, cn.pos, "send_err">>)
               ELSE /\ conns' = [conns EXCEPT ![i].pos = cn.pos + 1]
                    /\ resp' = Response("ws_recv", TRUE, 0, cn.user, TRUE, FALSE,
                                        <<i, cn.pos, "filtered">>)
    /\ UNCHANGED <<users, nextUid, fkEnforced, files, nextFid, disk, convs, nextCid,
                   members, messages, nextMid, attachments, bus, bucket>>
    /\ UNCHANGED tunnelVars
    /\ UNCHANGED authVars
    /\ UNCHANGED lockVars

\* handle_ws loop, socket.recv(): the client closed the socket
WsClose ==
    /\ \E i \in DOMAIN conns :
        /\ conns[i].st = "open"
        /\ conns' = [conns EXCEPT ![i].st = "closed"]
        /\ resp' = Response("ws_close", TRUE, 0, conns[i].user, TRUE, FALSE, <<i>>)
    /\ UNCHANGED <<users, nextUid, fkEnforced, files, nextFid, disk, convs, nextCid,
                   members, messages, nextMid, attachments, bus, bucket>>
    /\ UNCHANGED tunnelVars
    /\ UNCHANGED authVars
    /\ UNCHANGED lockVars

\* a node with its users and one private file of the first user, on a build whose
\* SQLite enforces the foreign keys
InitChat ==
    /\ NodeUp
    /\ users = UsersAtStart
    /\ nextUid = MaxUsers + 1
    /\ files = <<[file_id |-> 1, user_id |-> 1, file_name |-> <<"a">>, is_public |-> FALSE]>>
    /\ nextFid = 2
    /\ disk = [n \in DiskNames |-> IF n = <<"a">> THEN [fid |-> 1, by |-> 1] ELSE NoBlob]
    /\ convs = <<>>
    /\ nextCid = 1
    /\ members = {}
    /\ messages = {}
    /\ nextMid = 1
    /\ attachments = {}
    /\ fkEnforced = ForeignKeysEnforced
    /\ ApiIdle

\* conversations created while messages and the stream are observed
MaxChatConvs == 1

NextChat ==
    \/ (nextCid <= MaxChatConvs /\ ApiCreateConversation)
    \/ ApiListConversations \/ ApiUpdateConversation
    \/ ApiSendMessage \/ ApiGetMessages

SpecChat == InitChat /\ [][NextChat]_vars

\* created_at of the message with this id
StampOf(id) == (CHOOSE m \in messages : m.id = id).ts

\* a client paging through conversation c: the page after the cursor, then the pages
\* after the created_at of that page's last message, until a page comes back empty
RECURSIVE Paginate(_, _, _)
Paginate(c, limit, before) ==
    LET page == ListMessages(messages, users, c, limit, before)
    IN  IF page = <<>> THEN <<>>
        ELSE page \o Paginate(c, limit, StampOf(page[Len(page)]))

\* C12: paging a conversation from no cursor until an empty page returns each of its
\* messages exactly once, in strictly descending order of created_at.
C12_PagingComplete ==
    \A c \in DOMAIN convs, limit \in 1..MaxMsgs :
        LET all == Paginate(c, limit, 0)
            ids == {m.id : m \in {x \in messages : x.conv = c}}
        IN  /\ Rows(all) = ids
            /\ Len(all) = Cardinality(ids)
            /\ \A i \in 1..(Len(all) - 1) : StampOf(all[i]) > StampOf(all[i + 1])

\* C16: every stored message has a non-empty body or at least one attachment.
C16_BodyOrAttachment ==
    \A m \in messages : ~m.empty \/ (\E x \in attachments : x[1] = m.id)

\* C17: a send by a member of the conversation succeeds and stores the message whatever
\* attachment ids it lists; the attachments it records are those of the listed ids that
\* are files of the sender, and no other attachment row changes.
C17_AttachmentsOwnedBySender ==
    [][(resp'.op = "send_message" /\ resp'.db) =>
          LET c == resp'.data[1]
              mid == resp'.data[2]
              fids == resp'.data[3]
              u == resp'.sub
          IN  /\ attachments \subseteq attachments'
              /\ \A x \in attachments' \ attachments :
                    /\ x[1] = mid /\ x[2] \in Rows(fids)
                    /\ \E f \in Rows(files) : f.file_id = x[2] /\ f.user_id = u
              /\ IsConversationMember(members, c, u) =>
                    /\ resp'.ok
                    /\ \E m \in messages' \ messages : m.id = mid /\ m.sender = u
                    /\ \A fid \in Rows(fids) :
                          (\E f \in Rows(files) : f.file_id = fid /\ f.user_id = u)
                              => <<mid, fid>> \in attachments']_vars

\* a message was stored for a send that listed only a file of another user
C17_Witness ==
    /\ resp.op = "send_message" /\ resp.ok
    /\ resp.data[3] # <<>>
    /\ \E f \in Rows(files) : f.file_id = resp.data[3][1] /\ f.user_id # resp.sub
    /\ \E m \in messages : m.id = resp.data[2]
    /\ ~\E x \in attachments : x[1] = resp.data[2]

\* C9: a rename or membership update, or a history read, that reaches the handler's
\* membership check for a user who is not a member of the conversation is answered 403,
\* leaves every conversation name and every membership as it was, and returns no message.
C9_NonMemberGets403 ==
    [][(/\ resp'.op \in {"update_conversation", "get_messages"}
        /\ resp'.authed /\ resp'.db
        /\ <<resp'.data[1], resp'.sub>> \notin members)
       => (/\ resp'.status = 403
           /\ convs' = convs
           /\ members' = members
           /\ resp'.data[2] = <<>>)]_vars

\* a non-member was refused the update of an existing conversation that has messages
C9_Witness ==
    /\ resp.op = "update_conversation" /\ resp.status = 403
    /\ resp.data[1] \in DOMAIN convs
    /\ <<resp.data[1], resp.sub>> \notin members
    /\ \E m \in messages : m.conv = resp.data[1]

\* C27: a send that reaches the storage layer for an authenticated user who is not a
\* member of the conversation is answered 403.
C27_SendByNonMember403 ==
    [][(/\ resp'.op = "send_message"
        /\ resp'.authed /\ resp'.db
        /\ <<resp'.data[1], resp'.sub>> \notin members)
       => resp'.status = 403]_vars

\* conversations only: creation and update
NextDm == ApiCreateConversation \/ ApiUpdateConversation

SpecDm == InitChat /\ [][NextDm]_vars

\* files and the deletion of users
NextFilePurge == ApiUploadFile \/ ApiDownloadFile \/ CmdDeleteUser

SpecFilePurge == InitFiles /\ [][NextFilePurge]_vars

\* C32: delete_user(u) leaves every file row of another user and the content stored
\* under that row's name as they were.
C32_DeleteUserKeepsOthersFiles ==
    [][resp'.op = "cmd_delete_user"
       => \A f \in Rows(files) :
              f.user_id # resp'.sub
                  => (f \in Rows(files') /\ disk'[f.file_name] = disk[f.file_name])]_vars

\* conversations and the deletion of users
NextPurge == ApiCreateConversation \/ ApiUpdateConversation \/ CmdDeleteUser

SpecPurge == InitChat /\ [][NextPurge]_vars

\* C19: once delete_user(u) has succeeded, the persistence layer holds no user row of u,
\* no file row owned by u, no conversation created by u, no membership of u and no
\* message sent by u.  (No command or route creates a space, so the spaces table stays
\* empty.)
C19_DeleteUserCascades ==
    \A u \in Uids \ DOMAIN users :
        /\ \A f \in Rows(files) : f.user_id # u
        /\ \A c \in DOMAIN convs : convs[c].created_by # u
        /\ \A x \in members : x[2] # u
        /\ \A x \in messages : x.sender # u

\* user 1, the owner of the stored file, was deleted: the file row went with the user
\* row, and a conversation of user 2 is left
C19_Witness ==
    /\ resp.op = "cmd_delete_user" /\ resp.ok /\ resp.sub = 1
    /\ 1 \notin DOMAIN users
    /\ files = <<>>
    /\ \E c \in DOMAIN convs : convs[c].created_by = 2 /\ <<c, 2>> \in members

\* C11: in every reachable state, create_dm_conversation for two users that returns a
\* conversation, called again for the same two users in either argument order, returns
\* the same conversation id and adds no conversation row and no membership row.
C11_DmIdempotent ==
    \A a \in Uids : \A b \in Uids \ {a} : \A p1 \in DmPicks(convs, members, a, b) :
        LET r1 == CreateDmConversation(convs, members, users, fkEnforced, nextCid, a, b, p1)
        IN  r1.ok =>
                \A xy \in {<<a, b>>, <<b, a>>} :
                    \A p2 \in DmPicks(r1.convs, r1.members, xy[1], xy[2]) :
                        LET r2 == CreateDmConversation(r1.convs, r1.members, users,
                                                       fkEnforced, nextCid + 1, xy[1], xy[2], p2)
                        IN  /\ r2.ok /\ r2.id = r1.id
                            /\ r2.convs = r1.convs /\ r2.members = r1.members

\* the members of conversation c
MembersOf(c) == {u \in PeerIds : <<c, u>> \in members}

\* C15: every dm conversation has exactly two distinct members and no two dm
\* conversations have the same pair of members.
C15_DmTwoPartyUnique ==
    \A c \in DOMAIN convs :
        convs[c].kind = "dm" =>
            /\ Cardinality(MembersOf(c)) = 2
            /\ \A d \in DOMAIN convs \ {c} :
                    convs[d].kind = "dm" => MembersOf(d) # MembersOf(c)

\* C28: a create_conversation step leaves a new dm conversation behind only when it
\* succeeded, and then with its two membership rows; a step that failed adds no dm
\* conversation row and no membership row of a dm conversation.
C28_DmCreationAtomic ==
    [][resp'.op = "create_conversation"
       => /\ \A c \in DOMAIN convs' \ DOMAIN convs :
                convs'[c].kind = "dm" =>
                    /\ resp'.ok
                    /\ Cardinality({u \in PeerIds : <<c, u>> \in members'}) = 2
          /\ \A m \in members' \ members :
                convs'[m[1]].kind = "dm" => resp'.ok]_vars

\* a node with its users and one group conversation made by the first user
InitStream ==
    /\ NodeUp
    /\ users = UsersAtStart
    /\ nextUid = MaxUsers + 1
    /\ files = <<>>
    /\ nextFid = 1
    /\ disk = [n \in DiskNames |-> NoBlob]
    /\ convs = <<[kind |-> "group", name |-> "n0", created_by |-> 1]>>
    /\ nextCid = 2
    /\ members = {<<1, 1>>}
    /\ messages = {}
    /\ nextMid = 1
    /\ attachments = {}
    /\ fkEnforced = ForeignKeysEnforced
    /\ ApiIdle

NextStream ==
    \/ ApiUpdateConversation \/ ApiSendMessage
    \/ WsHandler \/ WsLoad \/ WsRecv \/ WsClose

SpecStream == InitStream /\ [][NextStream]_vars

\* the routes of start_hub_api other than health, info, status, register and login
ProtectedOps ==
    {"list_members", "list_files", "upload_file", "download_file", "delete_file",
     "update_file_visibility", "create_conversation", "list_conversations",
     "update_conversation", "send_message", "get_messages", "ws"}

\* the application as launched, configured or not, with the API listening: requests
\* arrive before and after initialize_node
InitBoot == InitTunnel

NextBoot ==
    \/ CmdInitializeNode
    \/ ApiLogin
    \/ ApiListMembers \/ ApiListFiles \/ WsHandler

SpecBoot == InitBoot /\ [][NextBoot]_vars

\* C29: a request that reaches the API while no secret is initialized is answered with an
\* error status: no request ends in the failure of get_secret() on the unset secret.
C29_NoTokenOpBeforeInit ==
    [][(resp'.op \in ProtectedOps \cup {"login"} /\ jwtSecret = 0)
       => resp'.status >= 400]_vars

C8_BadTokenAlways401 ==
    (resp.op \in ProtectedOps /\ ~resp.authed) => (resp.status = 401 /\ ~resp.db)

\* is_conversation_member for the user of connection i
MemberNow(i, c) == <<c, conns[i].user>> \in members

\* C10: a connection loads its user's conversation ids once and keeps that set for as
\* long as it is open; an event is sent on the socket only if its conversation id is in
\* that set, a connection that is not lagging is sent every event whose conversation id
\* is in its set, and nothing is sent for an event whose conversation id is not in it.
C10_FilterBySnapshot ==
    [][/\ resp'.op = "ws_load" =>
            conns'[resp'.data[1]].snap =
                IF resp'.db THEN {c \in DOMAIN convs : MemberNow(resp'.data[1], c)} ELSE {}
       /\ \A i \in DOMAIN conns :
            conns[i].st = "open" => (i \in DOMAIN conns' /\ conns'[i].snap = conns[i].snap)
       /\ resp'.op = "ws_recv" =>
            LET i == resp'.data[1]
                ev == bus[resp'.data[2]]
                out == resp'.data[3]
            IN  /\ out \in {"sent", "send_err"} => ev.conv \in conns[i].snap
                /\ (out # "lagged" /\ ev.conv \in conns[i].snap) => out \in {"sent", "send_err"}
                /\ ev.conv \notin conns[i].snap => out \in {"filtered", "lagged"}]_vars

\* an event was sent to a user who had been removed from the conversation after connecting
C10_Witness ==
    /\ resp.op = "ws_recv" /\ resp.data[3] = "sent"
    /\ resp.data[1] \in DOMAIN conns
    /\ ~MemberNow(resp.data[1], bus[resp.data[2]].conv)

\* C10 as stated, with membership at the time of the event: a connected member that is
\* not lagging is sent the event, a connected non-member receives nothing
C10_FilterByMembership ==
    [][resp'.op = "ws_recv" =>
            LET i == resp'.data[1]
                ev == bus[resp'.data[2]]
                out == resp'.data[3]
            IN  /\ (out # "lagged" /\ MemberNow(i, ev.conv)) => out \in {"sent", "send_err"}
                /\ ~MemberNow(i, ev.conv) => out \in {"filtered", "lagged"}]_vars

\* requests with tokens issued before the run, and the deletion of users
NextRevoke ==
    \/ CmdDeleteUser
    \/ ApiListMembers \/ ApiListFiles \/ ApiListConversations \/ ApiGetMessages
    \/ WsHandler

SpecRevoke == InitChat /\ [][NextRevoke]_vars

\* C34 as claimed: a request to a protected endpoint or to the WebSocket upgrade that
\* bears the token of a user whose row has been deleted is answered 401.
C34_DeletedUserRejected ==
    [][(/\ resp'.op \in ProtectedOps
        /\ resp'.sub # 0 /\ resp'.sub \notin DOMAIN users)
       => resp'.status = 401]_vars

\* C34, amended: a well signed, unexpired token authenticates as its subject whether
\* or not the user's row exists; with the token of a deleted user the listings of
\* members, files and conversations are answered 200 and the WebSocket upgrade is
\* accepted.
C34_TokenOutlivesUser ==
    /\ [](\A h \in Headers :
            (h.scheme = "Bearer" /\ h.kind = "ok")
                => ValidateAuthHeader(h) = [ok |-> TRUE, sub |-> h.sub])
    /\ [][(resp'.sub # 0 /\ resp'.sub \notin DOMAIN users /\ resp'.authed)
           => /\ resp'.op \in {"list_members", "list_files", "list_conversations"}
                    => resp'.status = 200
              /\ resp'.op = "ws" => resp'.status \in {101, 400}]_vars

\* the members were listed for the token of a user deleted before
C34_Witness ==
    /\ resp.op = "list_members" /\ resp.status = 200
    /\ resp.sub # 0 /\ resp.sub \notin DOMAIN users

\* the code that takes the mutexes of AppState, interleaved at its lock operations
NextLocks == LockBegin \/ LockAcquire \/ LockRelease \/ LockReturn

SpecLocks == InitFiles /\ [][NextLocks]_vars

\* p waits in Mutex::lock for a guard another thread or task holds
Blocked(p) == NextOp(p)[1] = "acq" /\ lockOwner[NextOp(p)[2]] # "none"

\* the holder of the guard p waits for, "none" when p does not wait
WaitsFor(p) == IF p # "none" /\ Blocked(p) THEN lockOwner[NextOp(p)[2]] ELSE "none"

\* where the chain of waits that starts at p is after n links
RECURSIVE Follow(_, _)
Follow(p, n) == IF n = 0 \/ p = "none" THEN p ELSE Follow(WaitsFor(p), n - 1)

\* C40: a guard of the storage mutex is taken before one of the tunnel mutex and never
\* after it, nothing is locked while the guard of the manual-stop flag is held, and in
\* no state is there a cycle of threads and tasks each of which waits for a guard held
\* by the next (a chain of waits as long as the number of threads and tasks would
\* close such a cycle): every chain of waits ends at one that can run.
C40_NoLockDeadlock ==
    /\ \A p \in Procs, l \in Locks :
          (lockOwner[l] = p /\ NextOp(p)[1] = "acq")
              => <<l, NextOp(p)[2]>> \in {<<"sm", "tm">>, <<"tm", "flag">>}
    /\ \A l \in Locks : lockOwner[l] # "none" => ~LockDone(lockOwner[l])
    /\ \A p \in Procs : Follow(p, Cardinality(Procs)) = "none"

\* a command holds the storage and the tunnel guard while the handler waits for the
\* first, the watchdog for the second, and the other command for the storage guard
C40_Witness ==
    /\ lockOwner["sm"] = "cmd1" /\ lockOwner["tm"] = "cmd1"
    /\ Blocked("api") /\ Blocked("watchdog") /\ Blocked("cmd2") /\ Blocked("autostart")

\* C33 as claimed: whenever an event is sent on a connection, the connection's user is a
\* member of the event's conversation at that moment.
C33_SentOnlyToCurrentMembers ==
    [][(resp'.op = "ws_recv" /\ resp'.data[3] \in {"sent", "send_err"})
       => MemberNow(resp'.data[1], bus[resp'.data[2]].conv)]_vars

\* C33, amended: whenever an event is sent on a connection, its conversation is one the
\* connection's user was a member of when the connection loaded its conversation ids;
\* that load takes the memberships of that moment, and a later membership update, a
\* removal included, leaves the set of every connection as it was.
C33_SentToMembersAtConnect ==
    [][/\ (resp'.op = "ws_recv" /\ resp'.data[3] \in {"sent", "send_err"})
            => bus[resp'.data[2]].conv \in conns[resp'.data[1]].snap
       /\ resp'.op = "ws_load"
            => \A c \in conns'[resp'.data[1]].snap : MemberNow(resp'.data[1], c)
       /\ resp'.op = "update_conversation" => conns' = conns]_vars

\* a user removed from the conversation after the connection loaded its set was sent
\* an event of that conversation on the open connection
C33_Witness ==
    /\ resp.op = "ws_recv" /\ resp.data[3] = "sent"
    /\ conns[resp.data[1]].st = "open"
    /\ bus[resp.data[2]].conv \in conns[resp.data[1]].snap
    /\ <<bus[resp.data[2]].conv, conns[resp.data[1]].user>> \notin members

\* C37: a receive that reports lag keeps the connection open and moves it forward to the
\* oldest event still retained, which exists; every receive moves its connection past
\* the position it read, no step moves a connection back, and the events already
\* published keep their positions: so an event skipped by a lag is never delivered
\* later and no event is delivered twice on a connection.
C37_LagSkipsForward ==
    [][/\ resp'.op = "ws_recv" =>
            LET i == resp'.data[1]
                p == resp'.data[2]
            IN  /\ conns[i].pos = p /\ conns'[i].pos > p
                /\ resp'.data[3] = "lagged" =>
                       /\ conns'[i].st = "open"
                       /\ conns'[i].pos = Len(bus) - BusCap + 1
                       /\ conns'[i].pos <= Len(bus)
       /\ \A i \in DOMAIN conns : i \in DOMAIN conns' /\ conns'[i].pos >= conns[i].pos
       /\ \A k \in DOMAIN bus : k \in DOMAIN bus' /\ bus'[k] = bus[k]]_vars

\* a connection that had read nothing lagged behind two events and was moved to the
\* second one, still open
C37_Witness ==
    /\ resp.op = "ws_recv" /\ resp.data[3] = "lagged" /\ resp.data[2] = 1
    /\ conns[resp.data[1]].st = "open"
    /\ conns[resp.data[1]].pos = Len(bus)
    /\ Len(bus) > BusCap

====
